---- MODULE Spec2Model ----
(***************************************************************************)
(* Model of the content-distribution and slide-normalization core of the   *)
(* PPT-and-DOC generator backend:                                          *)
(*   services/docx_generator.py   _clean_section_content,                  *)
(*                                split_section_into_parts,                *)
(*                                distribute_sections_across_pages         *)
(*   services/content_generator.py generate_content_with_gemini,           *)
(*                                generate_word_sections_with_gemini       *)
(*   routers/presentations.py     _sanitize_generated_content,             *)
(*                                create_presentation, update_presentation,*)
(*                                configure_presentation, update_slide     *)
(*   routers/documents.py         export_word_project                      *)
(*   models/schemas.py            ConfigurationUpdate                      *)
(*                                                                         *)
(* Text is modelled as a sequence of tokens.  A token is either a line     *)
(* break or a maximal run of non-blank characters; two neighbouring        *)
(* non-break tokens are separated by one space.  Every token carries the   *)
(* attributes the code's regular expressions and comparisons look at.      *)
(***************************************************************************)
EXTENDS Integers, Sequences, FiniteSets, TLC

\* ------------------------------------------------------------------ bounds
MaxSections == 3
MaxPages == 4
MaxItems == 2
MaxSlides == 2

\* -------------------------------------------------------------- text model
NL == "\n"
\* line breaks the normalizer unifies: "\n", "\r\n", "\r" and the escaped "\\n"
CRLF == "\r\n"
CR == "\r"
ESCN == "\\n"
LineBreaks == {NL, CRLF, CR, ESCN}

\* tokens holding at least one \w character
WordToks == {"a", "b", "c", "a.", "b.", "c.", "h", "h:", "section", "Section",
             "page", "one", "1", "H", "Page", "Doc", "doc", "AI", "Intro", "1:"}
\* tokens holding no \w character
PunctToks == {"--", "-"}
\* tokens ending in '.', '!' or '?'
SentenceEnd == {"a.", "b.", "c."}
\* the suffix f" (cont.)" of a continued heading, glued to what precedes it
CONT == " (cont.)"

\* str.lower() of one token: every token of the model that holds a capital
\* letter has its lower-case image here, the others are their own image
LowerTok(t) ==
  IF t = "Section" THEN "section"
  ELSE IF t = "AI" THEN "ai"
  ELSE IF t = "Slide" THEN "slide"
  ELSE IF t = "H" THEN "h"
  ELSE IF t = "Page" THEN "page"
  ELSE IF t = "Doc" THEN "doc"
  ELSE IF t = "Intro" THEN "intro"
  ELSE IF t = "Overview" THEN "overview"
  ELSE IF t = "Uses" THEN "uses"
  ELSE IF t = "New" THEN "new"
  ELSE IF t = "Edited" THEN "edited"
  ELSE IF t = "ML" THEN "ml"
  ELSE IF t = "L" THEN "l"
  ELSE IF t = "None" THEN "none"
  ELSE IF t = "Arial" THEN "arial"
  ELSE IF t = "Calibri" THEN "calibri"
  ELSE IF t = "Times" THEN "times"
  ELSE IF t = "Roman" THEN "roman"
  ELSE IF t = "Segoe" THEN "segoe"
  ELSE IF t = "UI" THEN "ui"
  ELSE IF t = "Poppins" THEN "poppins"
  ELSE IF t = "Comic" THEN "comic"
  ELSE IF t = "Sans" THEN "sans"
  ELSE IF t = "A" THEN "a"
  ELSE IF t = "B" THEN "b"
  ELSE IF t = "C" THEN "c"
  ELSE IF t = "D" THEN "d"
  ELSE IF t = "E" THEN "e"
  ELSE IF t = "F" THEN "f"
  ELSE IF t = "This is fallback auto-generated content. [...]"
    THEN "this is fallback auto-generated content. [...]"
  ELSE t
Lower(line) == [i \in DOMAIN line |-> LowerTok(line[i])]
\* token t with ':' appended, for tokens of headings
WithColon(t) == IF t = "h" THEN "h:" ELSE "<none>"

SeqSum(f) ==
  LET RECURSIVE Sum(_)
      Sum(i) == IF i = 0 THEN 0 ELSE f[i] + Sum(i - 1)
  IN Sum(Len(f))

\* len(re.findall(r"\w+", s)): each word token is one run; the 'n' of an
\* escaped "\\n" is a run of its own unless a word token follows it directly
WordRuns(s) ==
  SeqSum([i \in DOMAIN s |->
            IF s[i] \in WordToks THEN 1
            ELSE IF s[i] = ESCN /\ ~(i < Len(s) /\ s[i + 1] \in WordToks) THEN 1
            ELSE 0])

\* str.split("\n") after the replace() calls: cut at every break token
RECURSIVE SplitLines(_)
SplitLines(s) ==
  IF \A i \in DOMAIN s : s[i] # NL THEN <<s>>
  ELSE LET i == CHOOSE k \in DOMAIN s :
                  s[k] = NL /\ \A j \in 1..(k - 1) : s[j] # NL
       IN <<SubSeq(s, 1, i - 1)>> \o SplitLines(SubSeq(s, i + 1, Len(s)))

\* "\n".join(lines)
RECURSIVE JoinLines(_)
JoinLines(lines) ==
  IF lines = <<>> THEN <<>>
  ELSE IF Len(lines) = 1 THEN lines[1]
  ELSE lines[1] \o <<NL>> \o JoinLines(Tail(lines))

\* " ".join(chunks)
RECURSIVE JoinSpace(_)
JoinSpace(chunks) ==
  IF chunks = <<>> THEN <<>> ELSE Head(chunks) \o JoinSpace(Tail(chunks))

\* str.strip(): the white space at both ends of a text is its line breaks
\* "\n", "\r\n" and "\r" (an escaped "\\n" is no white space); the space
\* between two tokens is never at an end
RECURSIVE StripText(_)
StripText(s) ==
  IF s # <<>> /\ Head(s) \in {NL, CRLF, CR} THEN StripText(Tail(s))
  ELSE IF s # <<>> /\ s[Len(s)] \in {NL, CRLF, CR}
       THEN StripText(SubSeq(s, 1, Len(s) - 1))
  ELSE s

\* a chain of str.replace() calls that turn line breaks into "\n". Break tokens
\* are glued to their neighbours, so a "\r" token directly before a token of
\* `after` is the first character of a "\r\n" at the time "\r\n" is replaced
\* and yields ONE break with it; every other token of `breaks` is one break
RECURSIVE ReplaceBreaks(_, _, _)
ReplaceBreaks(raw, breaks, after) ==
  IF raw = <<>> THEN <<>>
  ELSE IF Head(raw) = CR /\ Len(raw) > 1 /\ raw[2] \in after
       THEN ReplaceBreaks(Tail(raw), breaks, after)
       ELSE <<IF Head(raw) \in breaks THEN NL ELSE Head(raw)>>
            \o ReplaceBreaks(Tail(raw), breaks, after)

\* the three replace() calls of the normalizer, in the order of the code:
\* "\r\n" first, then "\r", then the escaped "\\n" (so "\r" before an escaped
\* break stays a break of its own)
NormaliseBreaks(raw) == ReplaceBreaks(raw, LineBreaks, {NL})

\* mutant: a line that starts with "section " is no meta line
IsMetaLine_NoSectionPrefix(first, doc_title_low, heading_low) ==
  LET f_low == Lower(first)
  IN \/ f_low = doc_title_low
     \/ Len(f_low) >= 2 /\ f_low[1] = "page"
          /\ \E i \in DOMAIN f_low : f_low[i] = "section"
     \/ f_low = heading_low
     \/ /\ heading_low # <<>>
        /\ Len(f_low) >= Len(heading_low)
        /\ \A i \in 1..(Len(heading_low) - 1) : f_low[i] = heading_low[i]
        /\ f_low[Len(heading_low)] = WithColon(heading_low[Len(heading_low)])

\* the per-line tests of the stripping loop (first is a non-blank line)
IsMetaLine(first, doc_title_low, heading_low) ==
  LET f_low == Lower(first)
      is_doc_title == f_low = doc_title_low
      is_page_section == /\ Len(f_low) >= 2 /\ f_low[1] = "page"
                         /\ \E i \in DOMAIN f_low : f_low[i] = "section"
      is_section_prefix == Len(f_low) >= 2 /\ f_low[1] = "section"
      is_heading_exact == f_low = heading_low
      is_heading_with_colon ==
        /\ heading_low # <<>>
        /\ Len(f_low) >= Len(heading_low)
        /\ \A i \in 1..(Len(heading_low) - 1) : f_low[i] = heading_low[i]
        /\ f_low[Len(heading_low)] = WithColon(heading_low[Len(heading_low)])
  IN is_doc_title \/ is_page_section \/ is_section_prefix
       \/ is_heading_exact \/ is_heading_with_colon

\* mutant: the loop ends after the first meta line it drops
RECURSIVE StripTop_OnlyOnce(_, _, _)
StripTop_OnlyOnce(lines, doc_title_low, heading_low) ==
  IF lines = <<>> THEN <<>>
  ELSE IF Head(lines) = <<>>
       THEN StripTop_OnlyOnce(Tail(lines), doc_title_low, heading_low)
  ELSE IF /\ IsMetaLine(Head(lines), doc_title_low, heading_low)
          /\ \E i \in 2..Len(lines) : lines[i] # <<>>
       THEN Tail(lines)
       ELSE lines

\* mutant: a meta line is dropped even when nothing follows it
RECURSIVE StripTop_Always(_, _, _)
StripTop_Always(lines, doc_title_low, heading_low) ==
  IF lines = <<>> THEN <<>>
  ELSE IF Head(lines) = <<>>
       THEN StripTop_Always(Tail(lines), doc_title_low, heading_low)
  ELSE IF IsMetaLine(Head(lines), doc_title_low, heading_low)
       THEN StripTop_Always(Tail(lines), doc_title_low, heading_low)
       ELSE lines

\* while lines: ... strip blank and meta lines at the top
RECURSIVE StripTop(_, _, _)
StripTop(lines, doc_title_low, heading_low) ==
  IF lines = <<>> THEN <<>>
  ELSE IF Head(lines) = <<>> THEN StripTop(Tail(lines), doc_title_low, heading_low)
  ELSE IF /\ IsMetaLine(Head(lines), doc_title_low, heading_low)
          /\ \E i \in 2..Len(lines) : lines[i] # <<>>
       THEN StripTop(Tail(lines), doc_title_low, heading_low)
       ELSE lines

\* collapse duplicate blank lines
RECURSIVE CollapseBlank(_, _)
CollapseBlank(lines, cleaned) ==
  IF lines = <<>> THEN cleaned
  ELSE IF Head(lines) = <<>> /\ cleaned # <<>> /\ cleaned[Len(cleaned)] = <<>>
       THEN CollapseBlank(Tail(lines), cleaned)
       ELSE CollapseBlank(Tail(lines), Append(cleaned, Head(lines)))

RECURSIVE TrimFront(_)
TrimFront(lines) ==
  IF lines # <<>> /\ Head(lines) = <<>> THEN TrimFront(Tail(lines)) ELSE lines

RECURSIVE TrimBack(_)
TrimBack(lines) ==
  IF lines # <<>> /\ lines[Len(lines)] = <<>>
  THEN TrimBack(SubSeq(lines, 1, Len(lines) - 1)) ELSE lines

\* _clean_section_content(doc_title, heading, raw)
CleanSectionContent(doc_title, heading, raw) ==
  IF raw = <<>> THEN <<>>
  ELSE LET lines == SplitLines(NormaliseBreaks(raw))
           stripped == StripTop(lines, Lower(doc_title), Lower(heading))
       IN JoinLines(TrimBack(TrimFront(CollapseBlank(stripped, <<>>))))

\* ------------------------------------------------- split_section_into_parts
Min(a, b) == IF a < b THEN a ELSE b
Max(a, b) == IF a > b THEN a ELSE b

\* Python's seq[lo:hi] for 0 <= lo
Slice(seq, lo, hi) == SubSeq(seq, lo + 1, Min(hi, Len(seq)))

\* [p.strip() for p in content.split("\n") if p.strip()]
Paragraphs(content) == SelectSeq(SplitLines(content), LAMBDA l : l # <<>>)

\* re.split(r'(?<=[.!?])\s+', text): cut after a token ending a sentence,
\* swallowing the white space (a space or a line break) that follows it
RECURSIVE SplitSentences(_)
SplitSentences(text) ==
  IF \A i \in 1..(Len(text) - 1) : text[i] \notin SentenceEnd THEN <<text>>
  ELSE LET i == CHOOSE k \in 1..(Len(text) - 1) :
                  /\ text[k] \in SentenceEnd
                  /\ \A j \in 1..(k - 1) : text[j] \notin SentenceEnd
           rest == IF text[i + 1] = NL THEN SubSeq(text, i + 2, Len(text))
                   ELSE SubSeq(text, i + 1, Len(text))
       IN <<SubSeq(text, 1, i)>> \o SplitSentences(rest)

\* heading of part i (0-based): f"{heading}" or f"{heading} (cont.)"
PartHeading(heading, i) == IF i = 0 THEN heading ELSE Append(heading, CONT)

\* mutant: the sentences left after the last chunk are forgotten
SplitBySentences_DropLeftover(heading, paragraphs, parts) ==
  LET sentences == SplitSentences(JoinLines(paragraphs))
      chunk_size == Max(1, Len(sentences) \div parts)
  IN [k \in 1..parts |->
        [heading |-> PartHeading(heading, k - 1),
         content |-> JoinSpace(Slice(sentences, (k - 1) * chunk_size,
                                     k * chunk_size))]]

\* mutant: a part whose chunk of sentences is empty is left out
SplitBySentences_NoEmptyParts(heading, paragraphs, parts) ==
  LET sentences == SplitSentences(JoinLines(paragraphs))
      chunk_size == Max(1, Len(sentences) \div parts)
      leftover == Slice(sentences, parts * chunk_size, Len(sentences))
      chunk(i) == JoinSpace(Slice(sentences, i * chunk_size, (i + 1) * chunk_size))
  IN [k \in 1..Min(parts, Len(sentences)) |->
        [heading |-> PartHeading(heading, k - 1),
         content |-> IF k = parts THEN chunk(k - 1) \o JoinSpace(leftover)
                     ELSE chunk(k - 1)]]

\* mutant: the leftover sentences are put in front of the first part
SplitBySentences_LeftoverFirst(heading, paragraphs, parts) ==
  LET sentences == SplitSentences(JoinLines(paragraphs))
      chunk_size == Max(1, Len(sentences) \div parts)
      leftover == Slice(sentences, parts * chunk_size, Len(sentences))
      chunk(i) == JoinSpace(Slice(sentences, i * chunk_size, (i + 1) * chunk_size))
  IN [k \in 1..parts |->
        [heading |-> PartHeading(heading, k - 1),
         content |-> IF k = 1 THEN JoinSpace(leftover) \o chunk(0)
                     ELSE chunk(k - 1)]]

\* the sentence fallback, taken when len(paragraphs) < parts
SplitBySentences(heading, paragraphs, parts) ==
  LET text == JoinLines(paragraphs)
      sentences == SplitSentences(text)
      chunk_size == Max(1, Len(sentences) \div parts)
      leftover == Slice(sentences, parts * chunk_size, Len(sentences))
      chunk(i) == JoinSpace(Slice(sentences, i * chunk_size, (i + 1) * chunk_size))
  IN [k \in 1..parts |->
        [heading |-> PartHeading(heading, k - 1),
         content |-> IF k = parts THEN chunk(k - 1) \o JoinSpace(leftover)
                     ELSE chunk(k - 1)]]

\* mutant: take = base + (1 if i >= parts - rem else 0), the extra paragraphs
\* go to the last parts
SplitByParagraphs_ExtraLast(heading, paragraphs, parts) ==
  LET base == Len(paragraphs) \div parts
      rem == Len(paragraphs) % parts
      ptr(i) == i * base + Max(0, i - (parts - rem))
  IN [k \in 1..parts |->
        [heading |-> PartHeading(heading, k - 1),
         content |-> JoinLines(Slice(paragraphs, ptr(k - 1), ptr(k)))]]

\* the even distribution of paragraphs, taken when len(paragraphs) >= parts
SplitByParagraphs(heading, paragraphs, parts) ==
  LET base == Len(paragraphs) \div parts
      rem == Len(paragraphs) % parts
      \* ptr before part i (0-based): i*base + min(i, rem)
      ptr(i) == i * base + Min(i, rem)
  IN [k \in 1..parts |->
        [heading |-> PartHeading(heading, k - 1),
         content |-> JoinLines(Slice(paragraphs, ptr(k - 1), ptr(k)))]]

\* split_section_into_parts(section, parts), parts >= 1
SplitSectionIntoParts(section, parts) ==
  LET heading == section.heading
      content == CleanSectionContent(<<>>, heading, section.content)
      paragraphs == Paragraphs(content)
  IN IF paragraphs = <<>>
     THEN [k \in 1..parts |-> [heading |-> heading, content |-> <<>>]]
     ELSE IF Len(paragraphs) < parts
          THEN SplitBySentences(heading, paragraphs, parts)
          ELSE SplitByParagraphs(heading, paragraphs, parts)

\* ----------------------------------------- distribute_sections_across_pages
VARIABLES
  sections,      \* argument: the flat list of sections
  num_pages_arg, \* argument: the requested page count, any integer
  num_pages,     \* the local num_pages after clamping
  pages,         \* the dict that is returned
  pages_list,    \* the page buckets of Case B
  filled_pages,  \* number of seeded pages
  empty_slots,   \* the loop counter of Case B
  iters,         \* number of iterations of the while loop entered so far
  cleaned_away,  \* words removed by the normalizer inside the splits so far
  origin,        \* per page, the index in `sections` each of its records stems from
  pc,            \* position in distribute_sections_across_pages
  \* generate_content_with_gemini / create_presentation
  topic, num_slides, data, normalized_slides, stored, spc

dvars == <<sections, num_pages_arg, num_pages, pages, pages_list, filled_pages,
           empty_slots, iters, cleaned_away, origin, pc>>
svars == <<topic, num_slides, data, normalized_slides, stored, spc>>

VARIABLES
  \* _clean_section_content / split_section_into_parts called on their own
  text_title,    \* argument doc_title
  text_heading,  \* argument heading, the section's heading
  text_raw,      \* argument raw, the section's content
  clean_once,    \* _clean_section_content(doc_title, heading, raw)
  clean_twice,   \* _clean_section_content(doc_title, heading, clean_once)
  split_parts,   \* argument parts
  split_out,     \* split_section_into_parts(section, parts)
  npc,
  \* ConfigurationUpdate / configure_presentation
  config,        \* the request body
  config_errors, \* the fields whose validator raised
  configuration, \* presentation.configuration
  cpc,
  \* export_word_project
  rows,              \* the Section rows of the project, in creation order
  project_num_pages, \* project.num_pages, 0 for NULL
  epc,
  \* generate_word_sections_with_gemini
  word_topic,        \* argument topic
  section_headings,  \* argument section_headings
  word_num_pages,    \* argument num_pages
  sections_per_page, \* argument sections_per_page, 0 for None
  reply,             \* what the first model call gives
  target_sections,
  parsed_sections,   \* the local sections after the parsing attempts
  final_sections,    \* cleaned_sections, sorted; the loop expands them in place
  expand_replies,    \* what the expand calls made so far gave
  word_result,       \* the list that is returned
  wpc

tvars == <<text_title, text_heading, text_raw, clean_once, clean_twice,
           split_parts, split_out, npc>>
cvars == <<config, config_errors, configuration, cpc>>
evars == <<rows, project_num_pages, epc>>
wvars == <<word_topic, section_headings, word_num_pages, sections_per_page,
           reply, target_sections, parsed_sections, final_sections,
           expand_replies, word_result, wpc>>
vars == <<dvars, svars, tvars, cvars, evars, wvars>>
\* what the steps of one function leave alone: the state of the others
not_dist == <<svars, tvars, cvars, evars, wvars>>
not_slides == <<dvars, tvars, cvars, evars, wvars>>
not_text == <<dvars, svars, cvars, evars, wvars>>
not_config == <<dvars, svars, tvars, evars, wvars>>
not_word == <<dvars, svars, tvars, cvars, evars>>

\* section contents the Content Source may return
ContentPool ==
  { <<>>,                                          \* ""
    <<"a">>,                                       \* one word
    <<"a", "b", "c.">>,                            \* one sentence
    <<"a.", "b", "c.">>,                           \* two sentences
    <<"a.", "b.", "c.", "a", "b.", "c">>,          \* five sentences
    <<"a", "b", NL, NL, "c.">>,                    \* two paragraphs
    <<"a.", CRLF, "b", ESCN, "c", NL, "a", "b.">>, \* three lines, mixed breaks
    <<"--">>,                                      \* no word at all
    <<"Section", "1", "a", NL, "--">>,             \* boilerplate, then a rule
    <<"section", "one", NL, "a", "b.", "c.">>,     \* boilerplate, then text
    <<"h:", "a", NL, NL, "b", "c.", "a.">>,        \* heading echo, then text
    <<"a", ESCN>> }                                \* trailing escaped break

HeadingOf(content) ==
  IF content \in {<<"a", "b", "c.">>, <<"--">>} THEN <<>> ELSE <<"h">>

SectionPool == { [heading |-> HeadingOf(c), content |-> c] : c \in ContentPool }

SeqsUpTo(S, n) == UNION { [1..k -> S] : k \in 0..n }

\* def word_count(s)
word_count(s) == WordRuns(s.content)
PageWords(page) == SeqSum([i \in DOMAIN page |-> word_count(page[i])])
TotalWords(secs) == PageWords(secs)

\* mutant: among sections of equal word count the later one comes first
SortedDesc_TiesReversed(secs) ==
  LET rank(i) == Cardinality({ j \in DOMAIN secs :
                     \/ word_count(secs[j]) > word_count(secs[i])
                     \/ word_count(secs[j]) = word_count(secs[i]) /\ j > i }) + 1
  IN [k \in DOMAIN secs |-> secs[CHOOSE i \in DOMAIN secs : rank(i) = k]]

\* sorted(sections, key=word_count, reverse=True): stable, longest first
SortedDesc(secs) ==
  LET rank(i) == Cardinality({ j \in DOMAIN secs :
                     \/ word_count(secs[j]) > word_count(secs[i])
                     \/ word_count(secs[j]) = word_count(secs[i]) /\ j < i }) + 1
  IN [k \in DOMAIN secs |-> secs[CHOOSE i \in DOMAIN secs : rank(i) = k]]

EmptyPagesOf(pl) == { j \in DOMAIN pl : pl[j] = <<>> }

\* mutant: the scan starts at the second bucket
LongestPageIdx_IgnoreFirst(pl) ==
  LET cand == { i \in DOMAIN pl : i > 1 /\ pl[i] # <<>> /\ PageWords(pl[i]) > 0 }
  IN IF cand = {} THEN 0
     ELSE CHOOSE i \in cand :
            \A j \in cand : \/ PageWords(pl[j]) < PageWords(pl[i])
                            \/ PageWords(pl[j]) = PageWords(pl[i]) /\ i <= j

\* mutant: wc >= longest_wc, the last page of the greatest count wins
LongestPageIdx_LastFound(pl) ==
  LET cand == { i \in DOMAIN pl : pl[i] # <<>> /\ PageWords(pl[i]) > 0 }
  IN IF cand = {} THEN 0
     ELSE CHOOSE i \in cand :
            \A j \in cand : \/ PageWords(pl[j]) < PageWords(pl[i])
                            \/ PageWords(pl[j]) = PageWords(pl[i]) /\ j <= i

\* the scan for the page with the longest total word count; 0 stands for None
LongestPageIdx(pl) ==
  LET cand == { i \in DOMAIN pl : pl[i] # <<>> /\ PageWords(pl[i]) > 0 }
  IN IF cand = {} THEN 0
     ELSE CHOOSE i \in cand :
            \A j \in cand : \/ PageWords(pl[j]) < PageWords(pl[i])
                            \/ PageWords(pl[j]) = PageWords(pl[i]) /\ i <= j

\* mutant: the scan returns the last empty slot
NextEmpty_Last(pl) ==
  IF EmptyPagesOf(pl) = {} THEN 0
  ELSE CHOOSE j \in EmptyPagesOf(pl) : \A k \in EmptyPagesOf(pl) : j >= k

\* the scan for the next empty slot; 0 stands for None
NextEmpty(pl) ==
  IF EmptyPagesOf(pl) = {} THEN 0
  ELSE CHOOSE j \in EmptyPagesOf(pl) : \A k \in EmptyPagesOf(pl) : j <= k

InitSlidesIdle ==
  /\ topic = <<>> /\ num_slides = 0 /\ data = <<>>
  /\ normalized_slides = <<>> /\ stored = <<>> /\ spc = "idle"

InitTextIdle ==
  /\ text_title = <<>> /\ text_heading = <<>> /\ text_raw = <<>>
  /\ clean_once = <<>> /\ clean_twice = <<>>
  /\ split_parts = 0 /\ split_out = <<>> /\ npc = "idle"

InitConfigIdle ==
  /\ config = <<>> /\ config_errors = {} /\ configuration = <<>>
  /\ cpc = "idle"

InitExportIdle == rows = <<>> /\ project_num_pages = 0 /\ epc = "idle"

InitWordIdle ==
  /\ word_topic = <<>> /\ section_headings = <<>> /\ word_num_pages = 0
  /\ sections_per_page = 0 /\ reply = <<>> /\ target_sections = 0
  /\ parsed_sections = <<>> /\ final_sections = <<>> /\ expand_replies = <<>>
  /\ word_result = <<>> /\ wpc = "idle"

InitDist ==
  /\ sections \in SeqsUpTo(SectionPool, MaxSections)
  /\ num_pages_arg \in (-1)..MaxPages
  /\ num_pages = num_pages_arg
  /\ pages = <<>>
  /\ pages_list = <<>>
  /\ filled_pages = 0
  /\ empty_slots = 0
  /\ iters = 0
  /\ cleaned_away = 0
  /\ origin = <<>>
  /\ pc = "entry"
  /\ InitSlidesIdle /\ InitTextIdle /\ InitConfigIdle /\ InitExportIdle /\ InitWordIdle

\* lines 171-172
ClampPages(n) == IF n <= 0 THEN 1 ELSE n

\* lines 171-175: clamp num_pages, build the dict of empty pages
Enter ==
  /\ pc = "entry"
  /\ num_pages' = ClampPages(num_pages)
  /\ pages' = [p \in 1..num_pages' |-> <<>>]
  /\ pc' = "dispatch"
  /\ UNCHANGED <<sections, num_pages_arg, pages_list, filled_pages, empty_slots,
                 iters, cleaned_away, origin, not_dist>>

\* lines 177-179: nothing to distribute
ReturnEmpty ==
  /\ pc = "dispatch"
  /\ Len(sections) = 0
  /\ pc' = "done"
  /\ UNCHANGED <<sections, num_pages_arg, num_pages, pages, pages_list,
                 filled_pages, empty_slots, iters, cleaned_away, origin, not_dist>>

\* mutant: the remainder is never handed out
BalancedPage_NoRemainder(secs, n, p) ==
  LET base == Len(secs) \div n
  IN Slice(secs, (p - 1) * base, p * base)

\* mutant: the remainder goes to the last pages instead of the first
BalancedPage_ExtraLast(secs, n, p) ==
  LET base == Len(secs) \div n
      rem == Len(secs) % n
      idx == (p - 1) * base + Max(0, (p - 1) - (n - rem))
      take == base + (IF p > n - rem THEN 1 ELSE 0)
  IN Slice(secs, idx, idx + take)

\* pages[p] = sections[idx: idx + take] of the balanced distribution
BalancedPage(secs, n, p) ==
  LET base == Len(secs) \div n
      rem == Len(secs) % n
      idx == (p - 1) * base + Min(p - 1, rem)
      take == base + (IF p <= rem THEN 1 ELSE 0)
  IN Slice(secs, idx, idx + take)

\* lines 181-190: Case A
CaseA ==
  /\ pc = "dispatch"
  /\ Len(sections) # 0
  /\ Len(sections) >= num_pages
  /\ pages' = [p \in 1..num_pages |-> BalancedPage(sections, num_pages, p)]
  /\ origin' = [p \in 1..num_pages |->
                  BalancedPage([i \in DOMAIN sections |-> i], num_pages, p)]
  /\ pc' = "done"
  /\ UNCHANGED <<sections, num_pages_arg, num_pages, pages_list, filled_pages,
                 empty_slots, iters, cleaned_away, not_dist>>

\* lines 199-210: one ranked section per page, any overflow on the first page
SeedPages(secs, n) ==
  LET sections_sorted == SortedDesc(secs)
  IN [i \in 1..n |->
        (IF i <= Len(sections_sorted) THEN <<sections_sorted[i]>> ELSE <<>>)
        \o (IF i = 1 THEN SubSeq(sections_sorted, n + 1, Len(sections_sorted))
            ELSE <<>>)]

\* the input positions of the sections SeedPages puts on each page
SeedOrigin(secs, n) ==
  LET rank(i) == Cardinality({ j \in DOMAIN secs :
                     \/ word_count(secs[j]) > word_count(secs[i])
                     \/ word_count(secs[j]) = word_count(secs[i]) /\ j < i }) + 1
      at(k) == CHOOSE i \in DOMAIN secs : rank(i) = k
  IN [i \in 1..n |->
        (IF i <= Len(secs) THEN <<at(i)>> ELSE <<>>)
        \o (IF i = 1 THEN [k \in 1..(Len(secs) - n) |-> at(n + k)] ELSE <<>>)]

\* lines 192-214: Case B, seeding
Seed ==
  /\ pc = "dispatch"
  /\ Len(sections) # 0
  /\ Len(sections) < num_pages
  /\ pages_list' = SeedPages(sections, num_pages)
  /\ filled_pages' = Cardinality(DOMAIN pages_list' \ EmptyPagesOf(pages_list'))
  /\ empty_slots' = num_pages - filled_pages'
  /\ origin' = SeedOrigin(sections, num_pages)
  /\ pc' = "loop"
  /\ UNCHANGED <<sections, num_pages_arg, num_pages, pages, iters, cleaned_away,
                 not_dist>>

\* mutant: part 0 is not put back on the page it came from
PopAndKeepFirst_Forget(pl, li) == [pl EXCEPT ![li] = Tail(pl[li])]

\* mutant: the section that is split stays on the page, next to its part 0
PopAndKeepFirst_NoPop(pl, li) ==
  LET parts == SplitSectionIntoParts(Head(pl[li]), 2)
  IN [pl EXCEPT ![li] = Append(pl[li], parts[1])]

\* lines 233-238: pop the first section of page li, split it in two and put
\* part 0 back on that page
PopAndKeepFirst(pl, li) ==
  LET parts == SplitSectionIntoParts(Head(pl[li]), 2)
  IN [pl EXCEPT ![li] = Append(Tail(pl[li]), parts[1])]

\* line 250: part 1 goes to the empty slot found
PlaceSecond(popped, sec_to_split, next_empty) ==
  LET parts == SplitSectionIntoParts(sec_to_split, 2)
  IN [popped EXCEPT ![next_empty] = Append(popped[next_empty], parts[2])]

\* words of the section that the normalizer of the split strips
WordsCleanedAway(sec) ==
  word_count(sec) - WordRuns(CleanSectionContent(<<>>, sec.heading, sec.content))

\* lines 217-251: one iteration of the while loop that splits
SplitIter ==
  /\ pc = "loop"
  /\ empty_slots > 0
  /\ LongestPageIdx(pages_list) # 0
  /\ LET li == LongestPageIdx(pages_list)
         sec_to_split == Head(pages_list[li])
         popped == PopAndKeepFirst(pages_list, li)
         next_empty == NextEmpty(popped)
     IN /\ cleaned_away' = cleaned_away + WordsCleanedAway(sec_to_split)
        /\ IF next_empty = 0
           THEN \* lines 246-248: no empty slot found, break
                /\ pages_list' = popped
                /\ origin' = [origin EXCEPT
                                ![li] = Append(Tail(origin[li]), Head(origin[li]))]
                /\ empty_slots' = empty_slots
                /\ pc' = "convert"
           ELSE /\ pages_list' = PlaceSecond(popped, sec_to_split, next_empty)
                /\ origin' = [origin EXCEPT
                                ![li] = Append(Tail(origin[li]), Head(origin[li])),
                                ![next_empty] = <<Head(origin[li])>>]
                /\ empty_slots' = empty_slots - 1
                /\ pc' = "loop"
  /\ iters' = iters + 1
  /\ UNCHANGED <<sections, num_pages_arg, num_pages, pages, filled_pages, not_dist>>

\* lines 229-231: no page with a word left to split
BreakNothingToSplit ==
  /\ pc = "loop"
  /\ empty_slots > 0
  /\ LongestPageIdx(pages_list) = 0
  /\ iters' = iters + 1
  /\ pc' = "convert"
  /\ UNCHANGED <<sections, num_pages_arg, num_pages, pages, pages_list,
                 filled_pages, empty_slots, cleaned_away, origin, not_dist>>

\* line 217: the loop condition fails
LoopExit ==
  /\ pc = "loop"
  /\ empty_slots <= 0
  /\ pc' = "convert"
  /\ UNCHANGED <<sections, num_pages_arg, num_pages, pages, pages_list,
                 filled_pages, empty_slots, iters, cleaned_away, origin, not_dist>>

\* mutant: pages[idx] = page, the keys start at 0
PagesFromList_ZeroBased(pl, pgs) == [p \in 0..(Len(pl) - 1) |-> pl[p + 1]] @@ pgs

\* lines 254-255: pages[idx + 1] = page, for every bucket
PagesFromList(pl, pgs) == [p \in 1..Len(pl) |-> pl[p]] @@ pgs

\* lines 253-257: the buckets become the dict
Convert ==
  /\ pc = "convert"
  /\ pages' = PagesFromList(pages_list, pages)
  /\ pc' = "done"
  /\ UNCHANGED <<sections, num_pages_arg, num_pages, pages_list, filled_pages,
                 empty_slots, iters, cleaned_away, origin, not_dist>>

NextDist ==
  \/ Enter
  \/ ReturnEmpty
  \/ CaseA
  \/ Seed
  \/ SplitIter
  \/ BreakNothingToSplit
  \/ LoopExit
  \/ Convert

SpecDist == InitDist /\ [][NextDist]_vars

\* ------------------------------------------- generate_content_with_gemini
\* A JSON value: k is its type, s the tokens of a string, items the elements
\* of a list.  "num" is the number 5, "absent" a key the record does not have.
Val(k, s, items) == [k |-> k, s |-> s, items |-> items]
Absent == Val("absent", <<>>, <<>>)
Null == Val("null", <<>>, <<>>)
Num == Val("num", <<>>, <<>>)
Str(s) == Val("str", s, <<>>)
List(items) == Val("list", <<>>, items)

\* Python truthiness of a value
Truthy(v) ==
  \/ v.k = "num"
  \/ v.k = "str" /\ v.s # <<>>
  \/ v.k = "list" /\ v.items # <<>>

\* str(v) of a scalar
StrOf(v) ==
  IF v.k = "str" THEN v.s ELSE IF v.k = "num" THEN <<"5">> ELSE <<"None">>

\* d.get(key, default)
Get(v, default) == IF v.k = "absent" THEN default ELSE v

\* one item of the parsed model output
Item(isdict, layout, title, bullets, left, right, caption, content, image, notes) ==
  [isdict |-> isdict, layout |-> layout, title |-> title, bullets |-> bullets,
   left |-> left, right |-> right, caption |-> caption, content |-> content,
   image |-> image, notes |-> notes]

\* a word of 119 characters
LongWord ==
  "wwwwwwwwwwwwwwwwwwwwwwwwwwwwwwwwwwwwwwwwwwwwwwwwwwwwwwwwwwwwwwwwwwwwwwwwwwwwwwwwwwwwwwwwwwwwwwwwwwwwwwwwwwwwwwwwwwwwwww"

\* items the model may return; layout "absent" is a record without the key
ItemPool ==
  { \* "s": not a record
    Item(FALSE, "absent", Absent, Absent, Absent, Absent, Absent, Absent, Absent, Absent),
    \* {"layout": "title", "title": "AI basics"}
    Item(TRUE, "title", Str(<<"AI", "basics">>), Absent, Absent, Absent, Absent, Absent, Absent, Absent),
    \* {"layout": "title", "title": "Overview"}
    Item(TRUE, "title", Str(<<"Overview">>), Absent, Absent, Absent, Absent, Absent, Absent, Absent),
    \* {"layout": "bullet", "title": "Uses", "bullets": ["x", "ai is", ""]}
    Item(TRUE, "bullet", Str(<<"Uses">>),
         List(<<Str(<<"x">>), Str(<<"ai", "is">>), Str(<<>>)>>),
         Absent, Absent, Absent, Absent, Absent, Absent),
    \* {"layout": "two_column", "title": "", "left": "l", "right": "r"}
    Item(TRUE, "two_column", Str(<<>>), Absent, Str(<<"l">>), Str(<<"r">>), Absent, Absent, Absent, Absent),
    \* {"layout": "image", "title": 5}
    Item(TRUE, "image", Num, Absent, Absent, Absent, Absent, Absent, Absent, Absent),
    \* {"layout": "image", "title": "Overview", "caption": null}
    Item(TRUE, "image", Str(<<"Overview">>), Absent, Absent, Absent, Null, Absent, Absent, Absent),
    \* {"layout": "image", "caption": ""}
    Item(TRUE, "image", Absent, Absent, Absent, Absent, Str(<<>>), Absent, Absent, Absent),
    \* {"layout": "title", "title": "a\n\n\nb"}
    Item(TRUE, "title", Str(<<"a", NL, NL, NL, "b">>), Absent, Absent, Absent, Absent, Absent, Absent, Absent),
    \* {"layout": "title", "title": "www...w c"}: the first 119 characters of
    \* the long topic, then another word
    Item(TRUE, "title", Str(<<LongWord, "c">>), Absent, Absent, Absent, Absent, Absent, Absent, Absent),
    \* {"layout": "chart"}
    Item(TRUE, "chart", Absent, Absent, Absent, Absent, Absent, Absent, Absent, Absent),
    \* {"title": "Uses", "content": ["x", 5, ""]}
    Item(TRUE, "absent", Str(<<"Uses">>), Absent, Absent, Absent, Absent,
         List(<<Str(<<"x">>), Num, Str(<<>>)>>), Absent, Absent),
    \* {"title": "AI", "image": "pic", "notes": 5}
    Item(TRUE, "absent", Str(<<"AI">>), Absent, Absent, Absent, Absent, Absent, Str(<<"pic">>), Num),
    \* {}
    Item(TRUE, "absent", Absent, Absent, Absent, Absent, Absent, Absent, Absent, Absent) }

\* topics of a request: a short one, the empty one, one holding a blank line,
\* and one of 122 characters between line breaks, whose 120th character is the
\* space behind the long word
TopicPool ==
  { <<"AI">>, <<>>, <<"a", NL, NL, "b">>, <<NL, LongWord, "b", NL>> }

\* a slide of the deck: a key the dict does not have is Absent
Slide(layout, title, bullets, left, right, caption, image_url) ==
  [layout |-> layout, title |-> title, bullets |-> bullets, left |-> left,
   right |-> right, caption |-> caption, image_url |-> image_url]

\* lines 214-286: the slides one item contributes, none or one
MapItem(slide) ==
  IF ~slide.isdict THEN <<>>
  ELSE IF slide.layout # "absent"
  THEN IF slide.layout = "title"
       THEN <<Slide("title", Get(slide.title, Str(<<>>)), Absent, Absent, Absent,
                    Absent, Absent)>>
       ELSE IF slide.layout = "bullet"
       THEN <<Slide("bullet", Get(slide.title, Str(<<>>)),
                    IF Truthy(slide.bullets) THEN slide.bullets ELSE List(<<>>),
                    Absent, Absent, Absent, Absent)>>
       ELSE IF slide.layout = "two_column"
       THEN <<Slide("two_column", Get(slide.title, Str(<<>>)), Absent,
                    Get(slide.left, Str(<<>>)), Get(slide.right, Str(<<>>)),
                    Absent, Absent)>>
       ELSE IF slide.layout = "image"
       THEN <<Slide("image", Get(slide.title, Str(<<>>)), Absent, Absent, Absent,
                    Get(slide.caption, Get(slide.title, Str(<<>>))), Absent)>>
       ELSE <<>>
  ELSE LET title == Get(slide.title, Str(<<>>))
       IN IF slide.content.k = "list"
          THEN <<Slide("bullet", title,
                       List(SelectSeq([i \in DOMAIN slide.content.items |->
                                         Str(StrOf(slide.content.items[i]))],
                                      LAMBDA b : b.s # <<>>)),
                       Absent, Absent, Absent, Absent)>>
          ELSE IF Truthy(slide.image)
          THEN <<Slide("image", title, Absent, Absent, Absent,
                       IF Truthy(slide.notes) THEN slide.notes
                       ELSE Str(StrOf(slide.image)),
                       Absent)>>
          ELSE <<Slide("title", title, Absent, Absent, Absent, Absent, Absent)>>

\* lines 211-286: the loop over the parsed list
RECURSIVE MapItems(_)
MapItems(items) ==
  IF items = <<>> THEN <<>> ELSE MapItem(Head(items)) \o MapItems(Tail(items))

\* mutant: the title is f"Slide {i}"
PaddingSlide_ZeroBased(i) ==
  Slide("title", Str(<<"Slide", ToString(i)>>), Absent, Absent, Absent,
        Absent, Absent)

\* lines 290-296: the Title slide appended at 0-based position i
PaddingSlide(i) ==
  Slide("title", Str(<<"Slide", ToString(i + 1)>>), Absent, Absent, Absent,
        Absent, Absent)

\* lines 288-298: exactly num_slides slides
PadOrTruncate(slides, n) ==
  IF Len(slides) < n
  THEN slides \o [k \in 1..(n - Len(slides)) |-> PaddingSlide(Len(slides) + k - 1)]
  ELSE IF Len(slides) > n THEN SubSeq(slides, 1, n)
  ELSE slides

\* line 303: the caption has to be replaced
NeedsCaption(s) == ~Truthy(s.caption) \/ s.caption.k # "str"

\* line 304: (s.get("title", "") or "")[:120] raises TypeError for a number
CaptionRaises(s) == s.layout = "image" /\ NeedsCaption(s) /\ s.title.k = "num"

\* line 304: the caption taken from the title; the titles of the image slides
\* of the model are shorter than 120 characters, so the slice keeps them whole
CaptionFromTitle(title) == IF Truthy(title) THEN title ELSE Str(<<>>)

\* lines 306-307: seed = topic and position without non-alphanumerics, so
\* without the spaces and line breaks of the topic
ImageUrl(tpc, idx) ==
  Str(<<"https://picsum.photos/seed/">>
        \o SelectSeq(tpc, LAMBDA t : t \notin LineBreaks) \o <<ToString(idx)>>)

\* lines 301-307, for the slide at 0-based position idx
ImagePassOne(s, tpc, idx) ==
  IF s.layout # "image" THEN s
  ELSE [s EXCEPT !.caption = IF NeedsCaption(s) THEN CaptionFromTitle(s.title)
                             ELSE s.caption,
                 !.image_url = ImageUrl(tpc, idx)]

ImagePass(slides, tpc) ==
  [i \in DOMAIN slides |-> ImagePassOne(slides[i], tpc, i - 1)]

\* ------------------------------------------ _sanitize_generated_content
\* s.startswith(prefix) on token strings
StartsWith(s, prefix) ==
  Len(s) >= Len(prefix) /\ SubSeq(s, 1, Len(prefix)) = prefix

\* lines 52-54: the prompt trimmed and lowered, its first 120 characters,
\* trimmed again. The length of a text is that of its tokens and of one space
\* between two tokens that are no line breaks; the slice keeps the tokens that
\* lie within the first 120 characters (the topics of the model are cut behind
\* a token or in the space behind one, never inside a token)
PromptCheck(original_prompt) ==
  LET prompt_norm == Lower(StripText(original_prompt))
      TextLen(s) ==
        SeqSum([i \in DOMAIN s |->
                  Len(s[i]) + (IF /\ i > 1 /\ s[i] \notin LineBreaks
                                  /\ s[i - 1] \notin LineBreaks
                               THEN 1 ELSE 0)])
      fits == { k \in 0..Len(prompt_norm) : TextLen(SubSeq(prompt_norm, 1, k)) <= 120 }
      sliced == SubSeq(prompt_norm, 1, CHOOSE k \in fits : \A j \in fits : j <= k)
  IN StripText(sliced)

EchoesPrompt(text, prompt_check) ==
  prompt_check # <<>> /\ StartsWith(Lower(text), prompt_check)

\* line 98: re.sub(r"\n{3,}", "\n\n", val), a run of line breaks keeps two
CollapseNewlines(s) ==
  LET keep == { i \in DOMAIN s :
                  ~(s[i] = NL /\ i > 2 /\ s[i - 1] = NL /\ s[i - 2] = NL) }
      nth(k) == CHOOSE i \in keep : Cardinality({ j \in keep : j < i }) = k - 1
  IN [k \in 1..Cardinality(keep) |-> s[nth(k)]]

\* lines 88-98, for one of the text keys the slide has
CleanTextKey(v, prompt_check) ==
  IF v.k # "str" THEN v
  ELSE LET val == StripText(v.s)
       IN IF val = <<>> THEN Absent
          ELSE IF EchoesPrompt(val, prompt_check) THEN Absent
          ELSE Str(CollapseNewlines(val))

\* lines 101-114
CleanBullets(v, prompt_check) ==
  IF v.k # "list" THEN v
  ELSE LET b_text(b) == IF b.k = "str" THEN Str(StripText(b.s)) ELSE b
           stripped == [i \in DOMAIN v.items |-> b_text(v.items[i])]
       IN List(SelectSeq(stripped,
                         LAMBDA b : \/ b.k # "str"
                                    \/ b.s # <<>> /\ ~EchoesPrompt(b.s, prompt_check)))

\* lines 120-125, for the value of one key
IsText(v) ==
  \/ v.k = "str" /\ StripText(v.s) # <<>>
  \/ v.k = "list" /\ \E i \in DOMAIN v.items : StripText(StrOf(v.items[i])) # <<>>

\* lines 117-125: only title, bullets and caption are looked at (a deck slide
\* has no description, content or text key)
HasText(s) == IsText(s.title) \/ IsText(s.bullets) \/ IsText(s.caption)

\* lines 82-114: the cleaned copy of one dict slide
SanitizeSlide(slide, prompt_check) ==
  [slide EXCEPT !.title = CleanTextKey(slide.title, prompt_check),
                !.caption = CleanTextKey(slide.caption, prompt_check),
                !.bullets = CleanBullets(slide.bullets, prompt_check)]

\* _sanitize_generated_content(content, original_prompt) for a list of dicts
SanitizeGeneratedContent(content, original_prompt) ==
  SelectSeq([i \in DOMAIN content |->
               SanitizeSlide(content[i], PromptCheck(original_prompt))],
            HasText)

\* ------------------------------------------------------ create_presentation
InitDistIdle ==
  /\ sections = <<>> /\ num_pages_arg = 0 /\ num_pages = 0 /\ pages = <<>>
  /\ pages_list = <<>> /\ filled_pages = 0 /\ empty_slots = 0 /\ iters = 0
  /\ cleaned_away = 0 /\ origin = <<>> /\ pc = "idle"

\* a request without custom_content; data is what the model's reply parses to
InitSlides ==
  /\ topic \in TopicPool
  /\ num_slides \in 1..MaxSlides
  /\ data \in { [islist |-> TRUE, items |-> x] : x \in SeqsUpTo(ItemPool, MaxItems) }
              \cup { [islist |-> FALSE, items |-> <<>>] }
  /\ normalized_slides = <<>>
  /\ stored = <<>>
  /\ spc = "request"
  /\ InitDistIdle /\ InitTextIdle /\ InitConfigIdle /\ InitExportIdle /\ InitWordIdle

\* lines 208-209 and 311-313: the reply is no list
RaiseNotList ==
  /\ spc = "request"
  /\ ~data.islist
  /\ spc' = "failed"
  /\ UNCHANGED <<topic, num_slides, data, normalized_slides, stored, not_slides>>

\* lines 211-286
MapSlides ==
  /\ spc = "request"
  /\ data.islist
  /\ normalized_slides' = MapItems(data.items)
  /\ spc' = "mapped"
  /\ UNCHANGED <<topic, num_slides, data, stored, not_slides>>

\* lines 288-298
EnsureCount ==
  /\ spc = "mapped"
  /\ normalized_slides' = PadOrTruncate(normalized_slides, num_slides)
  /\ spc' = "sized"
  /\ UNCHANGED <<topic, num_slides, data, stored, not_slides>>

\* lines 300-309: captions and image urls, then return
ImagePassReturn ==
  /\ spc = "sized"
  /\ \A i \in DOMAIN normalized_slides : ~CaptionRaises(normalized_slides[i])
  /\ normalized_slides' = ImagePass(normalized_slides, topic)
  /\ spc' = "returned"
  /\ UNCHANGED <<topic, num_slides, data, stored, not_slides>>

\* lines 304 and 311-313: the slice of a numeric title raises, the function
\* ends with RuntimeError
ImagePassRaise ==
  /\ spc = "sized"
  /\ \E i \in DOMAIN normalized_slides : CaptionRaises(normalized_slides[i])
  /\ spc' = "failed"
  /\ UNCHANGED <<topic, num_slides, data, normalized_slides, stored, not_slides>>

\* presentations.py lines 158-173: sanitize, store
SanitizeAndStore ==
  /\ spc = "returned"
  /\ stored' = IF normalized_slides = <<>> THEN <<>>
               ELSE SanitizeGeneratedContent(normalized_slides, topic)
  /\ spc' = "stored"
  /\ UNCHANGED <<topic, num_slides, data, normalized_slides, not_slides>>

NextSlides ==
  \/ RaiseNotList
  \/ MapSlides
  \/ EnsureCount
  \/ ImagePassReturn
  \/ ImagePassRaise
  \/ SanitizeAndStore

SpecSlides == InitSlides /\ [][NextSlides]_vars

\* ------------------------- the normalizer and the splitter called on their own
MaxLines == 3
MaxParts == 3

\* what one line of the model's text may be, with the break that ends it
RawPieces ==
  { <<"Doc", "one", NL>>,                  \* the document title
    <<"H", NL>>,                           \* the heading, in capitals
    <<"h:", ESCN>>,                        \* the heading and a colon
    <<"h:", "a", NL>>,                     \* the heading, a colon and text
    <<"Page", "1", "Section", "1", CRLF>>, \* page and section boilerplate
    <<"Section", "1", CR>>,                \* section boilerplate
    <<"a", "b.", NL>>,                     \* a paragraph
    <<"a.", "c">>,                         \* text that runs on into the next piece
    <<NL>> }                               \* a blank line

RawPool == { JoinSpace(ps) : ps \in SeqsUpTo(RawPieces, MaxLines) }
TitlePool == { <<>>, <<"Doc", "one">> }
HeadingPool == { <<>>, <<"h">> }

InitText ==
  /\ text_raw \in RawPool
  /\ text_heading \in HeadingPool
  /\ text_title = <<>>
  /\ clean_once = <<>> /\ clean_twice = <<>>
  /\ split_parts = 0 /\ split_out = <<>>
  /\ npc = "input"
  /\ InitDistIdle /\ InitSlidesIdle /\ InitConfigIdle /\ InitExportIdle /\ InitWordIdle

\* a call _clean_section_content(doc_title, heading, raw)
NormalizeText ==
  /\ npc = "input"
  /\ \E t \in TitlePool :
       /\ text_title' = t
       /\ clean_once' = CleanSectionContent(t, text_heading, text_raw)
  /\ npc' = "cleaned"
  /\ UNCHANGED <<text_heading, text_raw, clean_twice, split_parts, split_out,
                 not_text>>

\* the result handed to _clean_section_content once more
NormalizeAgain ==
  /\ npc = "cleaned"
  /\ clean_twice' = CleanSectionContent(text_title, text_heading, clean_once)
  /\ npc' = "recleaned"
  /\ UNCHANGED <<text_title, text_heading, text_raw, clean_once, split_parts,
                 split_out, not_text>>

\* a call split_section_into_parts(section, parts) with parts >= 1
SplitSection ==
  /\ npc = "input"
  /\ \E n \in 1..MaxParts :
       /\ split_parts' = n
       /\ split_out' = SplitSectionIntoParts(
                          [heading |-> text_heading, content |-> text_raw], n)
  /\ npc' = "split"
  /\ UNCHANGED <<text_title, text_heading, text_raw, clean_once, clean_twice,
                 not_text>>

NextText ==
  \/ NormalizeText
  \/ NormalizeAgain
  \/ SplitSection

SpecText == InitText /\ [][NextText]_vars

\* ------------------------------ ConfigurationUpdate, configure_presentation
\* A string is Str(s) with s its characters, or its words for a font name.
ALLOWED_FONTS ==
  { <<"Arial">>, <<"Calibri">>, <<"Times", "New", "Roman">>, <<"Segoe", "UI">>,
    <<"Poppins">> }

HexDigits == { "0", "1", "2", "3", "4", "5", "6", "7", "8", "9",
               "a", "b", "c", "d", "e", "f", "A", "B", "C", "D", "E", "F" }

\* HEX_COLOR_REGEX.match(s): '#', then 3 or 6 hex digits, then the end of the
\* string, which '$' also finds in front of one final "\n"
HexColorMatch(s) ==
  LET body == IF s # <<>> /\ s[Len(s)] = NL THEN SubSeq(s, 1, Len(s) - 1) ELSE s
  IN /\ Len(body) \in {4, 7}
     /\ body[1] = "#"
     /\ \A i \in 2..Len(body) : body[i] \in HexDigits

\* validate_font: raises unless v is falsy or an allowed font
FontRaises(v) == Truthy(v) /\ v.s \notin ALLOWED_FONTS
\* validate_font_color, validate_background_color, validate_accent_color
ColorRaises(v) == Truthy(v) /\ ~HexColorMatch(v.s)

\* the fields whose validator raises
ValidationErrors(c) ==
  { f \in {"font_color", "background_color", "accent_color"} : ColorRaises(c[f]) }
  \cup (IF FontRaises(c.font_name) THEN {"font_name"} ELSE {})

FontPool ==
  { Null, Str(<<>>), Str(<<"Arial">>), Str(<<"Times", "New", "Roman">>),
    Str(<<"arial">>), Str(<<"Comic", "Sans">>) }
ColorPool ==
  { Null, Str(<<>>), Str(<<"#", "f", "f", "f">>),
    Str(<<"#", "A", "1", "b", "2", "C", "3">>),
    Str(<<"#", "f", "f", "f", "f">>), Str(<<"f", "f", "f">>),
    Str(<<"#", "g", "g", "g">>), Str(<<"#", "f", "f", "f", NL>>) }
ThemePool == { Null, Str(<<"ppt1">>) }

InitConfig ==
  /\ config \in [theme_id : ThemePool, font_name : FontPool,
                  font_color : ColorPool, background_color : ColorPool,
                  accent_color : ColorPool]
  /\ config_errors = {}
  /\ configuration = <<>>
  /\ cpc = "request"
  /\ InitDistIdle /\ InitSlidesIdle /\ InitTextIdle /\ InitExportIdle /\ InitWordIdle

\* a validator raises: the request is answered with a validation error
RejectConfiguration ==
  /\ cpc = "request"
  /\ ValidationErrors(config) # {}
  /\ config_errors' = ValidationErrors(config)
  /\ cpc' = "rejected"
  /\ UNCHANGED <<config, configuration, not_config>>

\* presentations.py lines 223-246: presentation.configuration = config.dict()
ConfigurePresentation ==
  /\ cpc = "request"
  /\ ValidationErrors(config) = {}
  /\ configuration' = config
  /\ cpc' = "configured"
  /\ UNCHANGED <<config, config_errors, not_config>>

NextConfig ==
  \/ RejectConfiguration
  \/ ConfigurePresentation

SpecConfig == InitConfig /\ [][NextConfig]_vars

\* ------------------- the presentation record: create, configure, update, edit
\* The record exists once create_presentation has stored it (spc = "stored");
\* topic, stored and configuration are then its topic, content and
\* configuration columns.

\* a dict given as the configuration of a PresentationUpdate body
Dict(d) == [k |-> "dict", d |-> d]

\* POST /{id}/configure bodies
ConfigRequestPool ==
  [theme_id : {Null},
   font_name : {Null, Str(<<"Arial">>), Str(<<"Comic", "Sans">>)},
   font_color : {Null, Str(<<"#", "f", "f", "f">>), Str(<<"f", "f", "f">>)},
   background_color : {Null}, accent_color : {Null}]

\* PUT /{id} bodies; a field the body does not set is Absent
PresentationUpdate(tpc, cnt, cfg) ==
  [topic |-> tpc, content |-> cnt, configuration |-> cfg]

UpdatePool ==
  { \* {}
    PresentationUpdate(Absent, Absent, Absent),
    \* {"topic": "ML"}
    PresentationUpdate(Str(<<"ML">>), Absent, Absent),
    \* {"content": [{"layout": "title", "title": "Edited"}], "configuration": null}
    PresentationUpdate(Absent,
                       List(<<Slide("title", Str(<<"Edited">>), Absent, Absent,
                                    Absent, Absent, Absent)>>),
                       Null),
    \* {"configuration": {"font_name": "Arial", "font_color": "#fff"}}
    PresentationUpdate(Absent, Absent,
                       Dict([font_name |-> Str(<<"Arial">>),
                             font_color |-> Str(<<"#", "f", "f", "f">>)])),
    \* {"configuration": {"font_name": "Comic Sans"}}
    PresentationUpdate(Absent, Absent,
                       Dict([font_name |-> Str(<<"Comic", "Sans">>)])) }

\* PUT /{id}/slides/{slide_index} bodies
SlideUpdate(title, left) == [title |-> title, left |-> left]
SlideUpdatePool ==
  { SlideUpdate(Absent, Absent), SlideUpdate(Str(<<"New">>), Absent),
    SlideUpdate(Null, Str(<<"L">>)) }

\* lines 203, 205, 209: the key is in the body and its value is not None
Given(v) == v.k \notin {"absent", "null"}

\* lines 307-310: only the fields the body provides are overwritten, in the
\* slide held in memory
ApplySlideUpdate(slide, su) ==
  [slide EXCEPT !.title = IF Given(su.title) THEN su.title ELSE @,
                !.left = IF Given(su.left) THEN su.left ELSE @]

\* a request for a presentation that is stored, no other request in progress
Stored == spc = "stored" /\ cpc # "request"

\* one create_presentation request without custom_content
InitPresentation ==
  /\ topic \in TopicPool
  /\ num_slides \in 1..MaxSlides
  /\ data \in { [islist |-> TRUE, items |-> x] : x \in SeqsUpTo(ItemPool, 1) }
              \cup { [islist |-> FALSE, items |-> <<>>] }
  /\ normalized_slides = <<>>
  /\ stored = <<>>
  /\ spc = "request"
  /\ config = <<>> /\ config_errors = {} /\ configuration = Null
  /\ cpc = "idle"
  /\ InitDistIdle /\ InitTextIdle /\ InitExportIdle /\ InitWordIdle

\* the body of a configure request reaches the ConfigurationUpdate validators
RequestConfiguration ==
  /\ Stored
  /\ config' \in ConfigRequestPool
  /\ config_errors' = {}
  /\ cpc' = "request"
  /\ UNCHANGED <<configuration, not_config>>

\* presentations.py lines 181-215
UpdatePresentation ==
  /\ Stored
  /\ \E update \in UpdatePool :
       /\ topic' = IF Given(update.topic) THEN update.topic.s ELSE topic
       /\ stored' = IF Given(update.content) THEN update.content.items ELSE stored
       /\ configuration' = IF Given(update.configuration)
                           THEN update.configuration.d ELSE configuration
  /\ cpc' = "updated"
  /\ UNCHANGED <<num_slides, data, normalized_slides, spc, config,
                 config_errors, dvars, tvars, evars,
                 wvars>>

\* presentations.py lines 280-317, slide_index out of range: 404
UpdateSlideNotFound ==
  /\ Stored
  /\ \E slide_index \in (-1)..MaxSlides :
       slide_index < 0 \/ slide_index >= Len(stored)
  /\ cpc' = "not_found"
  /\ UNCHANGED <<svars, config, config_errors, configuration, dvars, tvars, evars,
                 wvars>>

\* presentations.py lines 280-317. Lines 301-313 change the list that was loaded
\* from the JSON column in place, and line 314 assigns that same list back.
\* models.py line 29 declares the column as a plain Column(JSON), with no
\* mutation tracking, so at db.commit() the loaded value the column is compared
\* with is the very list that was changed: the two are equal, no UPDATE is
\* written, and db.refresh() reads the stored content back as it was
UpdateSlide ==
  /\ Stored
  /\ \E slide_index \in (-1)..MaxSlides, slide_update \in SlideUpdatePool :
       /\ slide_index >= 0 /\ slide_index < Len(stored)
       /\ LET slides == [stored EXCEPT ![slide_index + 1] =
                                        ApplySlideUpdate(@, slide_update)]
              \* the loaded value of the attribute: the same object as slides
              loaded == slides
          IN stored' = IF slides = loaded THEN stored ELSE slides
  /\ cpc' = "slide_updated"
  /\ UNCHANGED <<topic, num_slides, data, normalized_slides, spc, config,
                 config_errors, configuration, dvars, tvars, evars,
                 wvars>>

NextPresentation ==
  \/ NextSlides
  \/ RequestConfiguration
  \/ NextConfig
  \/ UpdatePresentation
  \/ UpdateSlideNotFound
  \/ UpdateSlide

SpecPresentation == InitPresentation /\ [][NextPresentation]_vars

\* ----------------------------------------------------- export_word_project
\* A Section row: page_number and section_index 0 stand for NULL.
Row(title, content, page_number, section_index, order_index) ==
  [title |-> title, content |-> content, page_number |-> page_number,
   section_index |-> section_index, order_index |-> order_index]

\* section texts a project may hold
ExportPool ==
  { s \in SectionPool : s.content \in { <<"a">>, <<"a.", "b", "c.">>, <<"--">> } }

\* documents.py lines 111-143: the rows create_word_project stores for page
\* configurations that put the section texts secs on the pages pg, in order
PageRows(secs, pg) ==
  [i \in DOMAIN secs |->
     Row(secs[i].heading, secs[i].content, pg[i],
         Cardinality({ j \in 1..i : pg[j] = pg[i] }), i)]

\* the rows of the flat mode: no page_number, no section_index
FlatRows(secs) ==
  [i \in DOMAIN secs |-> Row(secs[i].heading, secs[i].content, 0, 0, i)]

\* page assignments of page-based creation: at most three sections on a page
PageAssignments(k, n) ==
  { pg \in [1..k -> 1..n] :
      /\ \A i, j \in 1..k : i < j => pg[i] <= pg[j]
      /\ \A p \in 1..n : Cardinality({ i \in 1..k : pg[i] = p }) <= 3 }

\* lines 275-284: order_by(page_number, section_index, order_index)
RowBefore(a, b) ==
  \/ a.page_number < b.page_number
  \/ a.page_number = b.page_number /\ a.section_index < b.section_index
  \/ /\ a.page_number = b.page_number /\ a.section_index = b.section_index
     /\ a.order_index < b.order_index

OrderedRows(rs) ==
  LET rank(i) == Cardinality({ j \in DOMAIN rs : RowBefore(rs[j], rs[i]) }) + 1
  IN [k \in DOMAIN rs |-> rs[CHOOSE i \in DOMAIN rs : rank(i) = k]]

\* lines 287-295: the dicts handed to the docx helper
SectionDict(row) ==
  [heading |-> row.title, content |-> row.content,
   page_number |-> row.page_number, order_index |-> row.order_index]

\* line 305
ExportNumPages(n) == IF n > 0 THEN n ELSE 1

InitExport ==
  /\ project_num_pages \in 0..MaxPages
  /\ \E secs \in SeqsUpTo(ExportPool, MaxSections) :
       \/ rows = FlatRows(secs)
       \/ /\ project_num_pages > 0
          /\ \E pg \in PageAssignments(Len(secs), project_num_pages) :
               rows = PageRows(secs, pg)
  /\ epc = "request"
  /\ InitDistIdle /\ InitSlidesIdle /\ InitTextIdle /\ InitConfigIdle
  /\ InitWordIdle

\* documents.py lines 255-306: read the rows, call
\* distribute_sections_across_pages(sections, num_pages)
ExportWordProject ==
  /\ epc = "request"
  /\ sections' = [i \in DOMAIN rows |-> SectionDict(OrderedRows(rows)[i])]
  /\ num_pages_arg' = ExportNumPages(project_num_pages)
  /\ num_pages' = ExportNumPages(project_num_pages)
  /\ pc' = "entry"
  /\ epc' = "distributing"
  /\ UNCHANGED <<pages, pages_list, filled_pages, empty_slots, iters,
                 cleaned_away, origin, rows, project_num_pages, svars, tvars,
                 cvars, wvars>>

NextExport ==
  \/ ExportWordProject
  \/ NextDist

SpecExport == InitExport /\ [][NextExport]_vars

\* ----------------------------------------- generate_word_sections_with_gemini
MaxWordPages == 2
MaxPerPage == 2

\* what one call of model.generate_content gives: an exception ("raise"), a
\* text without JSON ("text") or a JSON list of items ("list"); "none" stands
\* for a call that is not made
Reply(kind, text, items) == [kind |-> kind, text |-> text, items |-> items]

\* the order_index of an item: missing ("absent"), an integer ("int") or the
\* string "x" ("str")
Order(k, n) == [k |-> k, n |-> n]

WordItem(isdict, heading, order_index, content) ==
  [isdict |-> isdict, heading |-> heading, order_index |-> order_index,
   content |-> content]

\* a text of forty words
LongText == [i \in 1..40 |-> "a"]

WordItemPool ==
  { \* "s": not a record
    WordItem(FALSE, Absent, Order("absent", 0), Absent),
    \* {"heading": "h", "order_index": 2, "content": "a b\r\\nc."}: a return glued
    \* to an escaped break, one line break once the escaped break is replaced
    WordItem(TRUE, Str(<<"h">>), Order("int", 2), Str(<<"a", "b", CR, ESCN, "c.">>)),
    \* {"heading": "Intro", "order_index": 1, "content": "a a ... a"}
    WordItem(TRUE, Str(<<"Intro">>), Order("int", 1), Str(LongText)),
    \* {"heading": "h", "content": "h\na"}
    WordItem(TRUE, Str(<<"h">>), Order("absent", 0), Str(<<"h", NL, "a">>)),
    \* {"order_index": 0, "content": "Section 1: AI\n\na b"}
    WordItem(TRUE, Absent, Order("int", 0),
             Str(<<"Section", "1:", "AI", NL, NL, "a", "b">>)),
    \* {"heading": "Intro", "order_index": 3, "content": "Page 1 - Section 1\nb"}
    WordItem(TRUE, Str(<<"Intro">>), Order("int", 3),
             Str(<<"Page", "1", "-", "Section", "1", NL, "b">>)),
    \* {"heading": "h", "order_index": "x", "content": "a"}
    WordItem(TRUE, Str(<<"h">>), Order("str", 0), Str(<<"a">>)),
    \* {"heading": "h", "order_index": 1, "content": 5}
    WordItem(TRUE, Str(<<"h">>), Order("int", 1), Num),
    \* {"heading": 5, "order_index": 1, "content": "AI\na"}
    WordItem(TRUE, Num, Order("int", 1), Str(<<"AI", NL, "a">>)),
    \* {"heading": 5, "order_index": 1, "content": "a"}
    WordItem(TRUE, Num, Order("int", 1), Str(<<"a">>)) }

\* replies that hold no JSON
PlainTextPool ==
  { <<"Section", "1", "-", "a", "b">>, <<"a", NL, NL, "b", NL, "c.">>,
    <<"H", NL, NL, "a", "b.", NL, "c">>, <<"a", NL, "h">> }

\* replies to the request for a longer text
ExpandReplyPool ==
  { Reply("raise", <<>>, <<>>), Reply("text", <<"a">>, <<>>),
    Reply("text", <<"a", "b", ESCN, "c", "a", "b.">>, <<>>) }

\* lines 331-337
TargetSections(headings, np, spp) ==
  IF headings = <<>>
  THEN IF spp > 0 THEN Max(1, np * spp)
       ELSE Max(1, IF np > 0 THEN np ELSE 1)
  ELSE Max(1, Len(headings))

\* a section of the result
WordSection(heading, order_index, content) ==
  [heading |-> heading, order_index |-> order_index, content |-> content]

\* the fixed text of a placeholder section, behind its heading
FALLBACK == "This is fallback auto-generated content. [...]"

\* _fallback_generate_sections(topic, section_headings, target_sections)
FallbackGenerateSections(headings, target) ==
  LET hs == IF headings # <<>> THEN headings
            ELSE [i \in 1..target |-> <<"Section", ToString(i)>>]
  IN [i \in 1..Min(Len(hs), target) |->
        WordSection(Str(hs[i]), i, hs[i] \o <<NL, NL, FALLBACK>>)]

\* re.split(r"\n\s*\n+", text), blank pieces dropped: the runs of lines
\* between blank lines
RECURSIVE Blocks(_)
Blocks(lines) ==
  IF lines = <<>> THEN <<>>
  ELSE IF Head(lines) = <<>> THEN Blocks(Tail(lines))
  ELSE LET n == IF \E i \in DOMAIN lines : lines[i] = <<>>
                THEN (CHOOSE i \in DOMAIN lines :
                        lines[i] = <<>> /\ \A j \in 1..(i - 1) : lines[j] # <<>>) - 1
                ELSE Len(lines)
       IN <<JoinLines(SubSeq(lines, 1, n))>>
            \o Blocks(SubSeq(lines, n + 1, Len(lines)))

\* lines 104-114: the first non-blank line behind the first line that is the
\* heading (in any case) and is followed by a line break
BlockAfterHeading(lines, h) ==
  LET hits == { i \in 1..(Len(lines) - 1) : Lower(lines[i]) = Lower(h) }
  IN IF hits = {} THEN <<>>
     ELSE LET i == CHOOSE k \in hits : \A j \in hits : k <= j
              after == SelectSeq(SubSeq(lines, i + 1, Len(lines)),
                                 LAMBDA l : l # <<>>)
          IN IF after = <<>> THEN <<>> ELSE after[1]

\* _plain_text_to_sections_by_headings(raw, headings)
PlainTextToSectionsByHeadings(raw, headings) ==
  LET \* line 97: "\r\n" and "\r" become "\n"
      text == ReplaceBreaks(raw, {CRLF, CR}, {NL})
      lines == SplitLines(text)
      found == [i \in DOMAIN headings |-> BlockAfterHeading(lines, headings[i])]
      paragraphs == Blocks(lines)
      all_empty == \A i \in DOMAIN found : found[i] = <<>>
  IN [i \in DOMAIN headings |->
        WordItem(TRUE, Str(headings[i]), Order("int", i),
                 Str(IF all_empty /\ paragraphs # <<>>
                     THEN (IF i <= Len(paragraphs) THEN paragraphs[i] ELSE <<>>)
                     ELSE found[i]))]

\* lines 395-399: no headings, the paragraphs of the text in their order
PlainTextToSections(raw, target) ==
  LET paras == Blocks(SplitLines(raw))
  IN [i \in 1..target |->
        WordItem(TRUE, Str(<<"Section", ToString(i)>>), Order("int", i),
                 Str(IF i <= Len(paras) THEN paras[i] ELSE <<>>))]

\* lines 389-399: the list the cleaning loop walks
ParsedSections(r, headings, target) ==
  IF r.kind = "list" THEN r.items
  ELSE IF headings # <<>> THEN PlainTextToSectionsByHeadings(r.text, headings)
  ELSE PlainTextToSections(r.text, target)

\* lines 422-423: "Page 1 - Section 1" with the line breaks behind it, then
\* "Section 1 -" or "Section 1:" with the white space behind it
StripPrefixes(c) ==
  LET Digits == {"1"}
      SectionWord == {"Section", "section"}
      drop(t, k) == LET rest == SubSeq(t, k + 1, Len(t))
                        n == Cardinality({ i \in DOMAIN rest :
                                             \A j \in 1..i : rest[j] = NL })
                    IN SubSeq(rest, n + 1, Len(rest))
      c1 == IF /\ Len(c) >= 5 /\ c[1] \in {"Page", "page"} /\ c[2] \in Digits
               /\ c[3] = "-" /\ c[4] \in SectionWord /\ c[5] \in Digits
            THEN drop(c, 5) ELSE c
      cut == IF /\ Len(c1) >= 3 /\ c1[1] \in SectionWord /\ c1[2] \in Digits
                /\ c1[3] = "-"
             THEN 3
             ELSE IF Len(c1) >= 2 /\ c1[1] \in SectionWord /\ c1[2] = "1:" THEN 2
             ELSE 0
  IN IF cut = 0 THEN c1 ELSE drop(c1, cut)

\* s.get("content", "") or "" for a content that is no number
TextOf(v) == IF v.k = "str" THEN v.s ELSE <<>>

\* lines 416-426 raise for this item: int("x"), 5.replace, 5.strip
ItemRaises(item, tpc) ==
  /\ item.isdict
  /\ \/ item.order_index.k = "str"
     \/ item.content.k = "num"
     \/ /\ item.heading.k = "num"
        /\ LET c == StripPrefixes(StripText(ReplaceBreaks(TextOf(item.content),
                                                    LineBreaks, {NL, ESCN})))
           IN SplitLines(c)[1] # tpc

\* lines 416-431: the cleaned copy of one dict item
CleanWordItem(item, tpc) ==
  LET heading == IF Truthy(item.heading) THEN item.heading ELSE Str(<<>>)
      c == StripPrefixes(StripText(ReplaceBreaks(TextOf(item.content),
                                                    LineBreaks, {NL, ESCN})))
      lines == SplitLines(c)
      first_line == lines[1]
      rest == JoinLines(Tail(lines))
      echo == first_line = tpc \/ (heading.k = "str" /\ first_line = heading.s)
  IN WordSection(heading, item.order_index.n,
                 StripText(IF echo THEN rest ELSE c))

\* lines 411-441: the dict items cleaned, a missing order_index set to the
\* 1-based position, then list.sort(key=order_index), which is stable
CleanedSections(items, tpc) ==
  LET dicts == SelectSeq(items, LAMBDA it : it.isdict)
      cleaned_sections == [i \in DOMAIN dicts |-> CleanWordItem(dicts[i], tpc)]
      secs == [i \in DOMAIN cleaned_sections |->
                 IF cleaned_sections[i].order_index = 0
                 THEN [cleaned_sections[i] EXCEPT !.order_index = i]
                 ELSE cleaned_sections[i]]
      rank(i) == Cardinality({ j \in DOMAIN secs :
                     \/ secs[j].order_index < secs[i].order_index
                     \/ secs[j].order_index = secs[i].order_index /\ j < i }) + 1
  IN [k \in DOMAIN secs |-> secs[CHOOSE i \in DOMAIN secs : rank(i) = k]]

\* lines 464-469: the section after the answer to the expand request
ExpandSection(sec, r) ==
  IF r.kind = "raise" THEN sec
  ELSE LET expanded ==
             StripText([i \in DOMAIN r.text |->
                          IF r.text[i] = ESCN THEN NL ELSE r.text[i]])
       IN IF WordRuns(expanded) > WordRuns(sec.content)
          THEN [sec EXCEPT !.content = expanded]
          ELSE sec

\* mutant: a list longer than the target is returned whole
PadAndTrim_NoTrim(final, target) ==
  LET missing == target - Len(final)
      extra == FallbackGenerateSections(<<>>, missing)
  IN IF missing > 0
     THEN final \o [i \in DOMAIN extra |->
                      [extra[i] EXCEPT !.order_index = Len(final) + i]]
     ELSE final

\* lines 475-488
PadAndTrim(final, target) ==
  LET missing == target - Len(final)
      extra == FallbackGenerateSections(<<>>, missing)
  IN IF missing > 0
     THEN final \o [i \in DOMAIN extra |->
                      [extra[i] EXCEPT !.order_index = Len(final) + i]]
     ELSE SubSeq(final, 1, target)

\* a call with headings (the routers' calls) or with a page count
InitWord ==
  /\ word_topic = <<"AI">>
  /\ \/ /\ section_headings \in SeqsUpTo({ <<"h">>, <<"Intro">> }, MaxSections) \ {<<>>}
        /\ word_num_pages = 1 /\ sections_per_page = 0
     \/ /\ section_headings = <<>>
        /\ word_num_pages \in (-1)..MaxWordPages
        /\ sections_per_page \in (-1)..MaxPerPage
  /\ reply \in {Reply("raise", <<>>, <<>>)} \cup { Reply("text", t, <<>>) : t \in PlainTextPool }
               \cup { Reply("list", <<>>, x) : x \in SeqsUpTo(WordItemPool, MaxItems) }
  /\ target_sections = 0
  /\ parsed_sections = <<>>
  /\ final_sections = <<>>
  /\ expand_replies = <<>>
  /\ word_result = <<>>
  /\ wpc = "call"
  /\ InitDistIdle /\ InitSlidesIdle /\ InitTextIdle /\ InitConfigIdle
  /\ InitExportIdle

\* lines 331-337 and 385, 406-408: the model call raises
ModelCallFails ==
  /\ wpc = "call"
  /\ reply.kind = "raise"
  /\ target_sections' =
       TargetSections(section_headings, word_num_pages, sections_per_page)
  /\ word_result' = FallbackGenerateSections(section_headings, target_sections')
  /\ wpc' = "done"
  /\ UNCHANGED <<word_topic, section_headings, word_num_pages, sections_per_page,
                 reply, parsed_sections, final_sections, expand_replies, not_word>>

\* lines 331-337 and 385-399
ParseReply ==
  /\ wpc = "call"
  /\ reply.kind # "raise"
  /\ target_sections' =
       TargetSections(section_headings, word_num_pages, sections_per_page)
  /\ parsed_sections' = ParsedSections(reply, section_headings, target_sections')
  /\ wpc' = "parsed"
  /\ UNCHANGED <<word_topic, section_headings, word_num_pages, sections_per_page,
                 reply, final_sections, expand_replies, word_result, not_word>>

\* lines 412-434: an item makes the loop raise
NormalizeFails ==
  /\ wpc = "parsed"
  /\ \E i \in DOMAIN parsed_sections : ItemRaises(parsed_sections[i], word_topic)
  /\ word_result' = FallbackGenerateSections(section_headings, target_sections)
  /\ wpc' = "done"
  /\ UNCHANGED <<word_topic, section_headings, word_num_pages, sections_per_page,
                 reply, target_sections, parsed_sections, final_sections,
                 expand_replies, not_word>>

\* lines 411-441
NormalizeSections ==
  /\ wpc = "parsed"
  /\ \A i \in DOMAIN parsed_sections : ~ItemRaises(parsed_sections[i], word_topic)
  /\ final_sections' = CleanedSections(parsed_sections, word_topic)
  /\ wpc' = "expand"
  /\ UNCHANGED <<word_topic, section_headings, word_num_pages, sections_per_page,
                 reply, target_sections, parsed_sections, expand_replies,
                 word_result, not_word>>

\* lines 445-472, one round of the loop for a short section
ExpandShort ==
  /\ wpc = "expand"
  /\ Len(expand_replies) < Len(final_sections)
  /\ WordRuns(final_sections[Len(expand_replies) + 1].content) < 40
  /\ \E r \in ExpandReplyPool :
       /\ final_sections' =
            [final_sections EXCEPT ![Len(expand_replies) + 1] = ExpandSection(@, r)]
       /\ expand_replies' = Append(expand_replies, r)
  /\ UNCHANGED <<word_topic, section_headings, word_num_pages, sections_per_page,
                 reply, target_sections, parsed_sections, word_result, wpc,
                 not_word>>

\* lines 445-448 and 472, one round for a section of forty words or more
KeepLong ==
  /\ wpc = "expand"
  /\ Len(expand_replies) < Len(final_sections)
  /\ WordRuns(final_sections[Len(expand_replies) + 1].content) >= 40
  /\ expand_replies' = Append(expand_replies, Reply("none", <<>>, <<>>))
  /\ UNCHANGED <<word_topic, section_headings, word_num_pages, sections_per_page,
                 reply, target_sections, parsed_sections, final_sections,
                 word_result, wpc, not_word>>

\* lines 474-488
PadTrimReturn ==
  /\ wpc = "expand"
  /\ Len(expand_replies) = Len(final_sections)
  /\ word_result' = PadAndTrim(final_sections, target_sections)
  /\ wpc' = "done"
  /\ UNCHANGED <<word_topic, section_headings, word_num_pages, sections_per_page,
                 reply, target_sections, parsed_sections, final_sections,
                 expand_replies, not_word>>

NextWord ==
  \/ ModelCallFails
  \/ ParseReply
  \/ NormalizeFails
  \/ NormalizeSections
  \/ ExpandShort
  \/ KeepLong
  \/ PadTrimReturn

SpecWord == InitWord /\ [][NextWord]_vars

\* --------------------------------------------------- properties of the result
Done == pc = "done"
InCaseA == Len(sections) # 0 /\ Len(sections) >= num_pages
InCaseB == Len(sections) # 0 /\ Len(sections) < num_pages

RECURSIVE ConcatPages(_, _)
ConcatPages(pgs, n) == IF n = 0 THEN <<>> ELSE ConcatPages(pgs, n - 1) \o pgs[n]
\* all sections of the returned mapping, pages in ascending order
ResultSections == ConcatPages(pages, num_pages)
NoPageEmpty == \A p \in DOMAIN pages : pages[p] # <<>>

\* C1: the returned mapping has exactly the keys 1..max(1, num_pages), in Case A,
\* Case B and for an empty input, also for a requested page count of 0 or below.
C1_KeysExact == Done => DOMAIN pages = 1..Max(1, num_pages_arg)
C1_Witness == Done /\ num_pages_arg <= 0 /\ sections # <<>>

\* C2: in Case A the pages' section lists, concatenated in page order, are the
\* input sequence: every section once, in place, heading and content unchanged.
C2_CaseAConcat == Done /\ InCaseA => ResultSections = sections
C2_Witness == Done /\ InCaseA /\ Len(sections) = 3 /\ num_pages = 2

\* C3: in Case A page p holds base+1 sections if p <= rem and base otherwise,
\* with base = len div num_pages and rem = len mod num_pages.
C3_CaseASizes ==
  Done /\ InCaseA =>
    \A p \in 1..num_pages :
      Len(pages[p]) = (Len(sections) \div num_pages)
                      + (IF p <= Len(sections) % num_pages THEN 1 ELSE 0)
C3_Witness ==
  Done /\ InCaseA /\ Len(sections) % num_pages # 0
       /\ Len(pages[1]) = 2 /\ Len(pages[2]) = 1

\* C4 (as claimed): with at least one section and a total word count of at least
\* num_pages, every page of the result has a non-empty section list.
C4_NonEmptyPages ==
  Done /\ Len(sections) >= 1 /\ TotalWords(sections) >= num_pages => NoPageEmpty

\* C5 (as claimed): a page of the returned mapping is empty only when there is
\* no content at all: whenever at least one input section has non-empty
\* content, every page receives at least one (possibly split) section. Content
\* is counted here the way the loop counts it, in words; a section with a word
\* has non-empty content, so the claim asks at least this of the code.
C5_EveryPageServed ==
  Done /\ (\E i \in DOMAIN sections : WordRuns(sections[i].content) > 0)
    => NoPageEmpty

\* C6 (as claimed): whenever the total word count of the input is at least
\* num_pages, every page holds a section whose content is non-empty.
C6_Original ==
  Done /\ TotalWords(sections) >= num_pages =>
    \A p \in DOMAIN pages : \E i \in DOMAIN pages[p] : pages[p][i].content # <<>>

\* C7: the splitting loop of Case B terminates: an iteration that splits lowers
\* the number of empty pages by exactly one, an iteration that stays in the loop
\* strictly lowers the counter empty_slots, which never falls below 0, and the
\* loop body is entered at most num_pages - filled_pages times.
C7_LoopTerminates ==
  /\ [](pc \in {"loop", "convert", "done"} =>
          /\ iters <= num_pages - filled_pages
          /\ (pc = "loop" => empty_slots = Cardinality(EmptyPagesOf(pages_list))))
  /\ [][SplitIter => /\ Cardinality(EmptyPagesOf(pages_list'))
                          = Cardinality(EmptyPagesOf(pages_list)) - 1
                     /\ empty_slots' = empty_slots - 1]_vars
  /\ [][pc = "loop" /\ pc' = "loop" =>
          0 <= empty_slots' /\ empty_slots' < empty_slots]_vars
C7_Witness == Done /\ InCaseB /\ iters = num_pages - filled_pages /\ iters >= 2

\* C8 (as claimed): in Case B the words of the result are as many as the words
\* of the input.
C8_Original ==
  Done /\ InCaseB => TotalWords(ResultSections) = TotalWords(sections)
\* C8 (amended): in Case B the word count of the result is the word count of
\* the input minus the words the normalizer removes from the sections that are
\* split; the split itself neither drops nor duplicates a word, and the result
\* never holds more words than the input.
C8_WordsAccounted ==
  Done /\ InCaseB =>
    /\ cleaned_away >= 0
    /\ TotalWords(ResultSections) + cleaned_away = TotalWords(sections)
C8_Witness ==
  /\ Done /\ InCaseB /\ iters >= 2 /\ NoPageEmpty /\ cleaned_away = 0
  /\ TotalWords(sections) >= num_pages
  /\ \A p \in DOMAIN pages : PageWords(pages[p]) > 0

\* C9 (as claimed): for every parsed list and N >= 1 the normalization step
\* returns exactly N slides and never fails.
C9_ExactCount ==
  spc \in {"returned", "failed"} /\ data.islist =>
    spc = "returned" /\ Len(normalized_slides) = num_slides

\* C10 (as claimed): the stored presentation content has exactly num_slides
\* slides after normalization and sanitization.
C10_StoredCount == spc = "stored" => Len(stored) = num_slides

\* the loop is left while a page is still empty
StopsWithEmptyPages ==
  pc = "loop" /\ pc' = "convert" /\ EmptyPagesOf(pages_list) # {}
HasWords(pl) == \E i \in DOMAIN pl : PageWords(pl[i]) > 0

\* C19 (as claimed): the loop stops while empty pages remain only when no
\* non-empty page exists; then the partial mapping is returned with all keys;
\* in every other case the splitting goes on until no page is empty.
C19_Original ==
  /\ [][StopsWithEmptyPages =>
          \A i \in DOMAIN pages_list : pages_list[i] = <<>>]_vars
  /\ [](Done /\ InCaseB => DOMAIN pages = 1..num_pages)
\* C19 (amended): the loop stops while empty pages remain only when no page
\* holds a word, whether or not it holds sections; then the buckets are
\* returned as they are, under all keys 1..num_pages; while a page is empty
\* and some page holds a word, an iteration splits and fills one more page.
C19_StopsOnlyWithoutWords ==
  /\ [][StopsWithEmptyPages =>
          ~HasWords(pages_list) /\ pages_list' = pages_list]_vars
  /\ [][pc = "loop" /\ EmptyPagesOf(pages_list) # {} /\ HasWords(pages_list) =>
          /\ pc' = "loop"
          /\ Cardinality(EmptyPagesOf(pages_list'))
               < Cardinality(EmptyPagesOf(pages_list))]_vars
  /\ [](Done /\ InCaseB =>
          /\ DOMAIN pages = 1..num_pages
          /\ \A p \in 1..num_pages : pages[p] = pages_list[p])
C19_Witness ==
  /\ pc = "convert" /\ EmptyPagesOf(pages_list) # {} /\ iters >= 2
  /\ \E i \in DOMAIN pages_list : pages_list[i] # <<>>

\* C20: an iteration that splits takes the first of the non-empty pages with
\* the greatest word count, removes its first section, splits it in exactly two
\* parts, leaves part 0 on that page and puts part 1 on a page that was empty;
\* every other page is left as it was.
C20_SplitsLongestPage ==
  [][SplitIter =>
      \E i \in DOMAIN pages_list :
        /\ pages_list[i] # <<>>
        /\ \A j \in DOMAIN pages_list :
             pages_list[j] # <<>> =>
               \/ PageWords(pages_list[j]) < PageWords(pages_list[i])
               \/ PageWords(pages_list[j]) = PageWords(pages_list[i]) /\ i <= j
        /\ LET parts == SplitSectionIntoParts(Head(pages_list[i]), 2)
           IN /\ Len(parts) = 2
              /\ pages_list'[i] = Append(Tail(pages_list[i]), parts[1])
              /\ \E e \in EmptyPagesOf(pages_list) :
                   /\ pages_list'[e] = <<parts[2]>>
                   /\ \A j \in DOMAIN pages_list \ {i, e} :
                        pages_list'[j] = pages_list[j]]_vars
C20_Witness ==
  /\ pc = "loop" /\ iters = 1 /\ Len(sections) = 2 /\ num_pages = 4
  /\ word_count(sections[1]) = word_count(sections[2])
  /\ word_count(sections[1]) >= 2
  /\ Len(pages_list[1]) = 1 /\ pages_list[1][1] # sections[1]
  /\ pages_list[2] = <<sections[2]>>

\* the input positions met when the pages are read in ascending order
OriginsRead == ConcatPages(origin, num_pages)
NonDecreasing(f) == \A i, j \in DOMAIN f : i < j => f[i] <= f[j]
InLoopOrAfter == pc \in {"loop", "convert", "done"}
JustSeeded == pc = "loop" /\ iters = 0

\* C25 (as claimed): reading the result in page order visits the input
\* sections, or their parts, in the order of the input; in Case B an earlier
\* section never lies on a later page than a section that came after it.
C25_Original == Done /\ sections # <<>> => NonDecreasing(OriginsRead)
\* C25 (amended): in Case A the pages read in ascending order give the input
\* sections in input order; in Case B page i (i <= number of sections) is
\* seeded with the section of rank i by descending word count, equal counts in
\* input order, so the input order itself is not kept.
C25_OrderOnlyInCaseA ==
  /\ Done /\ InCaseA =>
       /\ OriginsRead = [i \in DOMAIN sections |-> i]
       /\ ResultSections = [i \in DOMAIN sections |-> sections[OriginsRead[i]]]
  /\ JustSeeded =>
       /\ \A i \in DOMAIN sections :
            /\ Len(origin[i]) = 1
            /\ pages_list[i] = <<sections[origin[i][1]]>>
       /\ \A i, j \in DOMAIN sections :
            i < j =>
              \/ word_count(sections[origin[i][1]]) > word_count(sections[origin[j][1]])
              \/ /\ word_count(sections[origin[i][1]]) = word_count(sections[origin[j][1]])
                 /\ origin[i][1] < origin[j][1]
C25_Witness ==
  /\ JustSeeded /\ Len(sections) = 2 /\ origin[1] = <<2>> /\ origin[2] = <<1>>
  /\ pages_list[1] = <<sections[2]>>

\* C29: in Case B every page holds at most one section, after the seeding, at
\* every point of the splitting loop and in the result.
C29_AtMostOneSection ==
  /\ InCaseB /\ InLoopOrAfter => \A i \in DOMAIN pages_list : Len(pages_list[i]) <= 1
  /\ InCaseB /\ Done => \A p \in DOMAIN pages : Len(pages[p]) <= 1
C29_Witness ==
  /\ InCaseB /\ Done /\ iters >= 2 /\ Len(sections) = 2
  /\ \A p \in DOMAIN pages : Len(pages[p]) = 1

\* C30: in Case B the non-empty pages are always the pages 1..k for some k, and
\* a split puts the "(cont.)" part on the lowest-numbered empty page, which lies
\* behind every page that holds a part of the same section.
C30_ContiguousPrefix ==
  /\ [](InCaseB /\ InLoopOrAfter =>
          \A i, j \in DOMAIN pages_list :
            i < j /\ pages_list[j] # <<>> => pages_list[i] # <<>>)
  /\ [][SplitIter =>
          \E e \in EmptyPagesOf(pages_list) :
            /\ \A k \in EmptyPagesOf(pages_list) : e <= k
            /\ Len(pages_list'[e]) = 1
            /\ pages_list'[e][1].heading # <<>>
            /\ pages_list'[e][1].heading[Len(pages_list'[e][1].heading)] = CONT
            /\ \E i \in 1..(e - 1) : origin[i] = origin'[e]
            /\ \A i \in DOMAIN origin : origin[i] = origin'[e] => i < e]_vars
C30_Witness ==
  /\ InCaseB /\ pc = "loop" /\ iters = 2 /\ num_pages = 4 /\ Len(sections) = 1
  /\ pages_list[3] # <<>> /\ pages_list[4] = <<>>

\* C11 (as claimed): every Image slide of the returned deck has a caption that
\* is a non-empty string and an image_url that is a non-empty string, whatever
\* caption, title and image fields the generator supplied.
C11_ImageComplete ==
  spc = "returned" =>
    \A i \in DOMAIN normalized_slides :
      normalized_slides[i].layout = "image" =>
        /\ normalized_slides[i].caption.k = "str"
        /\ normalized_slides[i].caption.s # <<>>
        /\ normalized_slides[i].image_url.k = "str"
        /\ normalized_slides[i].image_url.s # <<>>

\* the slides the mapping loop produced from the parsed list
Mapped == MapItems(data.items)

\* C17: after the mapping, a deck shorter than num_slides keeps the mapped
\* slides and is padded with Title slides, the one at 1-based position k titled
\* "Slide k"; a longer deck is cut to its first num_slides slides, in order.
C17_PadOrTruncate ==
  spc = "sized" =>
    /\ Len(normalized_slides) = num_slides
    /\ \A k \in 1..num_slides :
         IF k <= Len(Mapped) THEN normalized_slides[k] = Mapped[k]
         ELSE /\ normalized_slides[k].layout = "title"
              /\ normalized_slides[k].title = Str(<<"Slide", ToString(k)>>)
C17_Witness ==
  /\ spc = "sized" /\ Len(Mapped) = 0 /\ num_slides = MaxSlides
  /\ normalized_slides[1].title = Str(<<"Slide", "1">>)
  /\ normalized_slides[MaxSlides].title = Str(<<"Slide", ToString(MaxSlides)>>)

\* the accepted values as the claim lists them
ClaimedFontOk(v) == v.k = "null" \/ (v.k = "str" /\ v.s \in ALLOWED_FONTS)
ClaimedColorOk(v) ==
  \/ v.k = "null"
  \/ /\ v.k = "str" /\ Len(v.s) \in {4, 7} /\ v.s[1] = "#"
     /\ \A i \in 2..Len(v.s) : v.s[i] \in HexDigits

\* C18 (as claimed): a configuration is accepted if and only if font_name is
\* null or an allowed font and each colour is null or '#' with exactly 3 or 6
\* hex digits; any other value, the empty string included, is rejected with an
\* error for that field; an accepted configuration is stored unchanged.
C18_Validated ==
  cpc # "request" =>
    /\ cpc = "configured"
         <=> /\ ClaimedFontOk(config.font_name)
             /\ \A f \in {"font_color", "background_color", "accent_color"} :
                  ClaimedColorOk(config[f])
    /\ cpc = "configured" => configuration = config
    /\ cpc = "rejected" =>
         config_errors =
           { f \in {"font_color", "background_color", "accent_color"} :
               ~ClaimedColorOk(config[f]) }
           \cup (IF ClaimedFontOk(config.font_name) THEN {} ELSE {"font_name"})

\* ------------------------------------------- properties of the normalizer
\* the non-blank lines of the raw text, after the breaks are unified
RawLines == Paragraphs(NormaliseBreaks(text_raw))
\* the non-blank lines of the normalized text
OutLines == Paragraphs(clean_once)
HasNonBlankLine(raw) == \E i \in DOMAIN raw : raw[i] \notin LineBreaks
Cleaned == npc \in {"cleaned", "recleaned"}

\* C12: normalizing a normalized text again, with the same document title and
\* heading, changes nothing; also for texts with repeated meta lines, escaped
\* line breaks and runs of blank lines.
C12_Idempotent == npc = "recleaned" => clean_twice = clean_once
C12_Witness ==
  /\ npc = "recleaned" /\ clean_once # <<>>
  /\ Len(RawLines) - Len(OutLines) >= 2
  /\ \E i \in DOMAIN text_raw : text_raw[i] = ESCN

\* C13: a raw text with at least one non-blank line never normalizes to the
\* empty text, because a meta line at the top is only dropped while another
\* non-blank line follows it; the empty raw text normalizes to the empty text.
C13_NeverStrippedToNothing ==
  Cleaned => /\ HasNonBlankLine(text_raw) => clean_once # <<>>
             /\ text_raw = <<>> => clean_once = <<>>
C13_Witness ==
  /\ Cleaned /\ text_heading = <<"h">> /\ clean_once = <<"H">>
  /\ Len(RawLines) = 2

\* the four forms of a meta line the claim names, compared in lower case
ClaimedMetaLine(line, doc_title, heading) ==
  LET low == Lower(line)
  IN \/ low = Lower(doc_title)
     \/ low = Lower(heading)
     \/ /\ heading # <<>>
        /\ low = [i \in DOMAIN heading |->
                    IF i = Len(heading) THEN WithColon(Lower(heading)[i])
                    ELSE Lower(heading)[i]]
     \/ /\ Len(low) >= 3 /\ low[1] = "page" /\ low[2] = "1"
        /\ \E i \in 3..Len(low) : low[i] = "section"

\* the forms the normalizer drops: the four above, and also a line that only
\* starts with the heading and a colon, or with "section "
DroppedMetaLine(line, doc_title, heading) ==
  LET low == Lower(line)
      colon == [i \in DOMAIN heading |->
                  IF i = Len(heading) THEN WithColon(Lower(heading)[i])
                  ELSE Lower(heading)[i]]
  IN \/ ClaimedMetaLine(line, doc_title, heading)
     \/ heading # <<>> /\ Len(low) > Len(heading)
          /\ SubSeq(low, 1, Len(heading)) = colon
     \/ Len(low) >= 2 /\ low[1] = "section"
     \/ Len(low) >= 2 /\ low[1] = "page" /\ \E i \in 2..Len(low) : low[i] = "section"

\* the title and the heading echoed above one real paragraph
EchoedAboveParagraph ==
  /\ text_title = <<"Doc", "one">> /\ text_heading = <<"h">>
  /\ text_raw = <<"Doc", "one", NL, "H", NL, "a", "b.", NL>>

\* C14 (as claimed): a leading non-blank line that is followed by more non-blank
\* content is dropped if and only if it has one of the four forms; a line of
\* none of these forms stays the first line of the output.
C14_Original ==
  Cleaned /\ Len(RawLines) >= 2 =>
    /\ Len(OutLines) < Len(RawLines)
         <=> ClaimedMetaLine(RawLines[1], text_title, text_heading)
    /\ ~ClaimedMetaLine(RawLines[1], text_title, text_heading)
         => OutLines[1] = RawLines[1]
\* C14 (amended): a leading non-blank line that is followed by more non-blank
\* content is dropped if and only if, in lower case, it equals the document
\* title, equals the heading, starts with the heading and a colon, starts with
\* "page " and contains "section", or starts with "section "; any other line
\* stays the first line of the output, and a title and a heading echoed above
\* one real paragraph leave only that paragraph.
C14_MetaForms ==
  Cleaned =>
    /\ Len(RawLines) >= 2 =>
         /\ Len(OutLines) < Len(RawLines)
              <=> DroppedMetaLine(RawLines[1], text_title, text_heading)
         /\ ~DroppedMetaLine(RawLines[1], text_title, text_heading)
              => OutLines = RawLines
    /\ EchoedAboveParagraph => clean_once = <<"a", "b.">>
C14_Witness == Cleaned /\ EchoedAboveParagraph /\ clean_once = <<"a", "b.">>

\* -------------------------------------------- properties of the splitter
\* C15: for parts >= 1 the split returns exactly `parts` section records; when
\* the content is empty or normalizes to the empty text, every record has an
\* empty content.
C15_ExactlyParts ==
  npc = "split" =>
    /\ Len(split_out) = split_parts
    /\ \A k \in DOMAIN split_out : DOMAIN split_out[k] = {"heading", "content"}
    /\ CleanSectionContent(<<>>, text_heading, text_raw) = <<>>
         => \A k \in DOMAIN split_out : split_out[k].content = <<>>
C15_Witness ==
  /\ npc = "split" /\ split_parts = 3 /\ Len(split_out) = 3
  /\ Len(Paragraphs(CleanSectionContent(<<>>, text_heading, text_raw))) = 1
  /\ split_out[2].content = <<>>

\* the paragraphs and the sentences of the normalized content that is split
SplitInput == Paragraphs(CleanSectionContent(<<>>, text_heading, text_raw))
SplitInputSentences == SplitSentences(JoinLines(SplitInput))
PartContents == [k \in DOMAIN split_out |-> split_out[k].content]

\* C21: with P >= parts paragraphs the parts hold the paragraphs in their
\* order, none left out or repeated; the first P mod parts parts hold
\* P div parts + 1 paragraphs, the others P div parts.
C21_ParagraphsEven ==
  npc = "split" /\ Len(SplitInput) >= split_parts =>
    /\ \A k \in 1..split_parts :
         Len(Paragraphs(split_out[k].content))
           = (Len(SplitInput) \div split_parts)
             + (IF k <= Len(SplitInput) % split_parts THEN 1 ELSE 0)
    /\ JoinSpace([k \in DOMAIN split_out |-> Paragraphs(split_out[k].content)])
         = SplitInput
C21_Witness ==
  /\ npc = "split" /\ Len(SplitInput) = 3 /\ split_parts = 2
  /\ Len(Paragraphs(split_out[1].content)) = 2
  /\ Len(Paragraphs(split_out[2].content)) = 1

\* C22: with fewer paragraphs than parts, part i (0-based) holds the sentences
\* [i*chunk_size, (i+1)*chunk_size), chunk_size = max(1, sentences div parts);
\* the sentences behind the last chunk are appended to the last part; the parts
\* read in order give every sentence once, in order.
C22_SentenceChunks ==
  npc = "split" /\ SplitInput # <<>> /\ Len(SplitInput) < split_parts =>
    LET n == Len(SplitInputSentences)
        chunk_size == IF n \div split_parts >= 1 THEN n \div split_parts ELSE 1
        first(k) == (k - 1) * chunk_size + 1
        last(k) == IF k = split_parts THEN n
                   ELSE IF k * chunk_size <= n THEN k * chunk_size ELSE n
    IN /\ \A k \in 1..split_parts :
            split_out[k].content
              = JoinSpace(SubSeq(SplitInputSentences, first(k), last(k)))
       /\ JoinSpace(PartContents) = JoinSpace(SplitInputSentences)
C22_Witness ==
  /\ npc = "split" /\ Len(SplitInput) = 1 /\ split_parts = 2
  /\ Len(SplitInputSentences) = 3
  /\ split_out[2].content
       = SplitInputSentences[2] \o SplitInputSentences[3]

\* C16 (as claimed): part 0 carries the heading and every later part the
\* heading followed by " (cont.)", on the paragraph path, the sentence path
\* and the path of an empty content.
C16_Headings ==
  npc = "split" =>
    \A k \in DOMAIN split_out :
      split_out[k].heading = PartHeading(text_heading, k - 1)

\* the cleaned copy of the deck slide at position i
CleanedSlide(i) == SanitizeSlide(normalized_slides[i], PromptCheck(topic))

\* the string texts a slide carries in its title, caption and bullets
SlideTexts(s) ==
  (IF s.title.k = "str" THEN {s.title.s} ELSE {})
    \cup (IF s.caption.k = "str" THEN {s.caption.s} ELSE {})
    \cup (IF s.bullets.k = "list"
          THEN { s.bullets.items[i].s :
                   i \in { j \in DOMAIN s.bullets.items : s.bullets.items[j].k = "str" } }
          ELSE {})

\* order-preserving maps of the stored slides into the deck they came from
Embeddings ==
  { f \in [DOMAIN stored -> DOMAIN normalized_slides] :
      \A a, b \in DOMAIN stored : a < b => f[a] < f[b] }

Matches(t) == EchoesPrompt(t, PromptCheck(topic))

\* a title or caption that does not match the prefix is kept as kept(text),
\* text being the trimmed text of the field
KeepsField(old, new, kept(_)) ==
  old.k = "str" /\ StripText(old.s) # <<>> /\ ~Matches(StripText(old.s))
    => new = Str(kept(StripText(old.s)))

\* the string bullets that do not match the prefix are kept, in order
KeepsBullets(old, new) ==
  old.k = "list" =>
    /\ new.k = "list"
    /\ SelectSeq(new.items, LAMBDA b : b.k = "str")
         = SelectSeq([i \in DOMAIN old.items |->
                        IF old.items[i].k = "str"
                        THEN Str(StripText(old.items[i].s)) ELSE old.items[i]],
                     LAMBDA b : b.k = "str" /\ b.s # <<>> /\ ~Matches(b.s))

NoStoredEcho ==
  \A j \in DOMAIN stored : \A t \in SlideTexts(stored[j]) : ~Matches(t)

StoredKeeps(kept(_)) ==
  \E f \in Embeddings :
    \A j \in DOMAIN stored :
      /\ stored[j].layout = normalized_slides[f[j]].layout
      /\ KeepsField(normalized_slides[f[j]].title, stored[j].title, kept)
      /\ KeepsField(normalized_slides[f[j]].caption, stored[j].caption, kept)
      /\ KeepsBullets(normalized_slides[f[j]].bullets, stored[j].bullets)

SameText(t) == t

\* C23 (as claimed): after the sanitization pass with a non-empty prompt no
\* title, caption or string bullet of a stored slide starts, in lower case,
\* with the prompt prefix (the first 120 characters of the trimmed prompt); a
\* field that does not match the prefix keeps its trimmed text; the retained
\* slides keep their relative order. (The slides that reach the pass have no
\* content key: neither the deck builder nor the SlideContent schemas make one.)
C23_Original ==
  spc = "stored" /\ normalized_slides # <<>> /\ PromptCheck(topic) # <<>> =>
    NoStoredEcho /\ StoredKeeps(SameText)

\* a cleaned slide with a non-empty text in one of the fields the claim names
AnyText(s) ==
  \/ IsText(s.title) \/ IsText(s.bullets) \/ IsText(s.caption)
  \/ IsText(s.left) \/ IsText(s.right)

\* C27 (as claimed): a slide whose cleaned copy has a non-empty title, bullet,
\* caption, left or right text is retained by the sanitizer.
C27_TextKeepsSlide ==
  spc = "stored" /\ normalized_slides # <<>> =>
    /\ \A i \in DOMAIN normalized_slides :
         AnyText(CleanedSlide(i)) => \E j \in DOMAIN stored : stored[j] = CleanedSlide(i)
    /\ Len(stored)
         >= Cardinality({ i \in DOMAIN normalized_slides : AnyText(CleanedSlide(i)) })

\* the validators of ConfigurationUpdate accept the fields the dict has
PassesValidators(c) ==
  /\ "font_name" \in DOMAIN c => ~FontRaises(c.font_name)
  /\ \A f \in {"font_color", "background_color", "accent_color"} \cap DOMAIN c :
       ~ColorRaises(c[f])

\* C28 (as claimed): whatever create, configure, update and update_slide
\* requests were served, the stored configuration is null or passes the
\* validators of ConfigurationUpdate, and a rejected configure request leaves
\* the stored configuration as it was.
C28_StoredConfigurationValid ==
  /\ [](spc = "stored" => configuration = Null \/ PassesValidators(configuration))
  /\ [][RejectConfiguration => configuration' = configuration]_vars

\* the input positions of the records on page p of the mapping
OriginsOn(p) == { origin[p][k] : k \in DOMAIN origin[p] }

\* C26 (as claimed): in the page mapping the export hands to the renderer, a
\* section stored with a page_number p, 1 <= p <= num_pages, lies on page p.
C26_ExplicitPageKept ==
  epc = "distributing" /\ pc = "done" =>
    \A i \in DOMAIN sections :
      sections[i].page_number \in 1..num_pages
        => i \in OriginsOn(sections[i].page_number)

\* the number of sections the claim asks for
ClaimedTarget ==
  IF section_headings # <<>> THEN Len(section_headings)
  ELSE IF sections_per_page > 0 THEN Max(1, word_num_pages * sections_per_page)
  ELSE Max(1, word_num_pages)

\* a placeholder section with a generic heading
IsPlaceholder(sec) ==
  \E i \in 1..ClaimedTarget :
    /\ sec.heading = Str(<<"Section", ToString(i)>>)
    /\ sec.content = <<"Section", ToString(i), NL, NL, FALLBACK>>

\* C24: whatever the model answers (an exception, a text without JSON, a list
\* with fewer or more items, items that are no records or hold unusable
\* values), the function returns exactly target_sections sections; a list that
\* is too short is filled up with placeholder sections, one that is too long
\* loses its last sections.
C24_ExactlyTarget ==
  wpc = "done" =>
    /\ Len(word_result) = ClaimedTarget
    /\ Len(expand_replies) = Len(final_sections) /\ final_sections # <<>> =>
         \A k \in 1..ClaimedTarget :
           IF k <= Len(final_sections) THEN word_result[k] = final_sections[k]
           ELSE IsPlaceholder(word_result[k]) /\ word_result[k].order_index = k
C24_Witness ==
  /\ wpc = "done" /\ reply.kind = "list" /\ Len(reply.items) = 2
  /\ ~reply.items[1].isdict /\ reply.items[2].isdict
  /\ Len(section_headings) = 3
  /\ Len(final_sections) = 1 /\ Len(expand_replies) = 1
  /\ Len(word_result) = 3
  /\ word_result[1] = final_sections[1]
  /\ IsPlaceholder(word_result[3])

====
